---- MODULE Spec2Model ----
(***************************************************************************)
(* Storage accounting and share-link access control of the file manager:   *)
(* the tables, row-level policies, the update_storage_usage trigger and    *)
(* the SECURITY DEFINER procedures of the SQL schema, plus the direct      *)
(* table writes the React client issues.                                   *)
(*                                                                         *)
(* A nullable SQL value is an option: NULL is the empty tuple and a        *)
(* non-null value v is <<v>>.  NOT NULL columns hold plain values.         *)
(***************************************************************************)
EXTENDS Integers, Sequences, FiniteSets, TLC

VARIABLES
  profiles,     \* public.profiles: user id -> [storage_used, storage_limit]
  files,        \* public.files: file id -> row
  share_links,  \* public.share_links: link id -> row
  nextFileId,   \* ids already drawn by gen_random_uuid() for files
  nextLinkId,   \* ids already drawn by gen_random_uuid() for share links
  now,          \* the clock read by NOW()
  redeem,       \* per redeemer: the get_file_by_token call in progress / its outcome
  result,       \* outcome and returned row of the last completed procedure call
  folders,      \* public.folders: folder id -> row
  nextFolderId, \* ids already drawn by gen_random_uuid() for folders
  txn           \* per session: its open transaction on public.files, if any

vars == <<profiles, files, share_links, nextFileId, nextLinkId, now, redeem, result,
          folders, nextFolderId, txn>>

-----------------------------------------------------------------------------
(* Bounds of the model *)

\* files and share links ever inserted
MaxFiles == 1
MaxLinks == 1
\* files ever inserted, in the specifications of the ledger
LedgerFiles == 2
\* share links ever inserted, in the specification of link creation
ShareLinks == 2
\* files ever inserted, in the specification of the registry's transactions
AtomicFiles == 2
\* files ever inserted, in the specification of concurrent transactions
TxnFiles == 2
\* folders and files ever inserted, in the specification of the folders
MaxFolders == 2
FolderFiles == 2
\* files ever inserted, in the specification of the listing
ListFiles == 2
\* files ever inserted, in the specification of the row updates
UpdateFiles == 2
\* files ever inserted, in the specification of the uploads past the limit
QuotaFiles == 3
\* files ever inserted, in the specification of the concurrent transfers
TransferFiles == 2
\* files ever inserted and links ever created, in the specification of the
\* redemptions of several links
RedeemFiles == 2
RedeemLinks == 2
\* ticks of the clock
MaxTime == 2
\* value a download_count is incremented up to
MaxCount == 2

-----------------------------------------------------------------------------
(* SQL values *)

NULL == << >>
Some(v) == <<v>>
Val(x) == x[1]

\* three-valued comparison and conjunction; a PL/pgSQL IF takes its branch
\* only when the condition is TRUE (NULL counts as not taken)
SqlNe(a, b) == IF a = NULL \/ b = NULL THEN NULL ELSE Some(Val(a) # Val(b))
SqlEq(a, b) == IF a = NULL \/ b = NULL THEN NULL ELSE Some(Val(a) = Val(b))
SqlLt(a, b) == IF a = NULL \/ b = NULL THEN NULL ELSE Some(Val(a) < Val(b))
SqlGe(a, b) == IF a = NULL \/ b = NULL THEN NULL ELSE Some(Val(a) >= Val(b))
SqlAnd(p, q) ==
  IF p = Some(FALSE) \/ q = Some(FALSE) THEN Some(FALSE)
  ELSE IF p = NULL \/ q = NULL THEN NULL
  ELSE Some(TRUE)
SqlOr(p, q) ==
  IF p = Some(TRUE) \/ q = Some(TRUE) THEN Some(TRUE)
  ELSE IF p = NULL \/ q = NULL THEN NULL
  ELSE Some(FALSE)
IsNull(a) == Some(a = NULL)
IsNotNull(a) == Some(a # NULL)
IsTrue(p) == p = Some(TRUE)
IsDistinctFrom(a, b) == a # b
GREATEST(a, b) == IF a >= b THEN a ELSE b

-----------------------------------------------------------------------------
(* Identities *)

Users == {"A", "B"}
\* a third account, which signs up and does nothing else
Bystander == "C"
\* auth.uid(): the signed-in user, or NULL for an anonymous caller
Callers == {Some(u) : u \in Users} \cup {NULL}

\* storage_limit BIGINT DEFAULT 5368709120: all byte counts of the model are in
\* units of 2^30 bytes, so the default limit is 5
DefaultStorageLimit == 5

\* outcomes: the exception messages of the procedures
Success == "ok"
NotFound == "File not found"
NotAuthorized == "Not authorized"
InvalidToken == "Invalid or inactive token"
Expired == "Token expired"
InvalidPassword == "Invalid password"
LimitReached == "Download limit reached"
FileUnavailable == "File not available"
PolicyViolation == "new row violates row-level security policy"
NotNullViolation == "null value violates not-null constraint"
UniqueViolation == "duplicate key value violates unique constraint"
ForeignKeyViolation == "violates foreign key constraint"
AmbiguousColumn == "column reference is ambiguous"

NoReturn == << >>

-----------------------------------------------------------------------------
(* Usage Accountant: trigger on_file_storage_change *)

AddUsageEveryRow(profs, owner, amount) ==
  [u \in DOMAIN profs |-> [profs[u] EXCEPT !.storage_used = @ + amount]]

\* UPDATE profiles SET storage_used = storage_used + amount WHERE id = owner
AddUsage(profs, owner, amount) ==
  IF owner \in DOMAIN profs
  THEN [profs EXCEPT ![owner].storage_used = @ + amount]
  ELSE profs

\* UPDATE profiles SET storage_used = GREATEST(0, storage_used - amount) WHERE id = owner
SubUsage(profs, owner, amount) ==
  IF owner \in DOMAIN profs
  THEN [profs EXCEPT ![owner].storage_used = GREATEST(0, @ - amount)]
  ELSE profs

update_storage_usage_restoring_old_size(TG_OP, old, new, profs) ==
  IF TG_OP = "UPDATE" /\ new.owner_id = old.owner_id /\ old.is_deleted /\ ~new.is_deleted
  THEN AddUsage(profs, new.owner_id, old.file_size)
  ELSE IF TG_OP = "UPDATE" /\ new.owner_id = old.owner_id /\ ~old.is_deleted /\ new.is_deleted
  THEN SubUsage(profs, new.owner_id, old.file_size)
  ELSE IF TG_OP = "UPDATE" /\ new.owner_id = old.owner_id /\ ~old.is_deleted
  THEN AddUsage(profs, new.owner_id, new.file_size - old.file_size)
  ELSE IF TG_OP = "INSERT" /\ ~new.is_deleted
  THEN AddUsage(profs, new.owner_id, new.file_size)
  ELSE IF TG_OP = "DELETE" /\ ~old.is_deleted
  THEN SubUsage(profs, old.owner_id, old.file_size)
  ELSE IF TG_OP = "UPDATE" /\ new.owner_id # old.owner_id
  THEN LET p1 == IF ~old.is_deleted
                 THEN SubUsage(profs, old.owner_id, old.file_size) ELSE profs
       IN  IF ~new.is_deleted THEN AddUsage(p1, new.owner_id, new.file_size) ELSE p1
  ELSE profs

update_storage_usage(TG_OP, old, new, profs) ==
  IF TG_OP = "INSERT" THEN
    IF ~new.is_deleted
    THEN AddUsage(profs, new.owner_id, new.file_size)
    ELSE profs
  ELSE IF TG_OP = "DELETE" THEN
    IF ~old.is_deleted
    THEN SubUsage(profs, old.owner_id, old.file_size)
    ELSE profs
  ELSE \* UPDATE
    IF IsDistinctFrom(new.owner_id, old.owner_id) THEN
      LET p1 == IF ~old.is_deleted
                THEN SubUsage(profs, old.owner_id, old.file_size)
                ELSE profs
      IN  IF ~new.is_deleted
          THEN AddUsage(p1, new.owner_id, new.file_size)
          ELSE p1
    ELSE
      IF ~old.is_deleted /\ ~new.is_deleted THEN
        IF new.file_size # old.file_size
        THEN AddUsage(profs, new.owner_id, new.file_size - old.file_size)
        ELSE profs
      ELSE IF ~old.is_deleted /\ new.is_deleted THEN
        SubUsage(profs, new.owner_id, old.file_size)
      ELSE IF old.is_deleted /\ ~new.is_deleted THEN
        AddUsage(profs, new.owner_id, new.file_size)
      ELSE profs

-----------------------------------------------------------------------------
(* Row-level statements on public.files, each firing the trigger per row *)

\* INSERT INTO files: a fresh id, is_deleted FALSE, deleted_at NULL and
\* created_at NOW() by default (updated_at is not kept: no statement modelled
\* here reads it)
NewFileRow(rec, owner) ==
  [name |-> rec.name, original_name |-> rec.original_name,
   file_path |-> rec.file_path, file_type |-> rec.file_type,
   file_size |-> rec.file_size, folder_id |-> rec.folder_id,
   owner_id |-> owner, is_deleted |-> FALSE, deleted_at |-> NULL,
   created_at |-> now]

WithRow(tbl, id, row) ==
  [i \in DOMAIN tbl \cup {id} |-> IF i = id THEN row ELSE tbl[i]]

WithoutRows(tbl, ids) == [i \in DOMAIN tbl \ ids |-> tbl[i]]

\* the share links a DELETE of file fid removes (file_id ... ON DELETE CASCADE)
LinksOf(fid) == {l \in DOMAIN share_links : share_links[l].file_id = fid}

UpdateFileRowUnaccounted(fid, row) ==
  /\ files' = [files EXCEPT ![fid] = row]
  /\ profiles' = profiles

\* UPDATE files SET ... WHERE id = fid, with the AFTER UPDATE trigger
UpdateFileRow(fid, row) ==
  /\ files' = [files EXCEPT ![fid] = row]
  /\ profiles' = update_storage_usage("UPDATE", files[fid], row, profiles)

DeleteFileRowKeepingLinks(fid) ==
  /\ files' = WithoutRows(files, {fid})
  /\ profiles' = update_storage_usage("DELETE", files[fid], files[fid], profiles)
  /\ share_links' = share_links

\* DELETE FROM files WHERE id = fid, with the AFTER DELETE trigger and the cascade
DeleteFileRow(fid) ==
  /\ files' = WithoutRows(files, {fid})
  /\ profiles' = update_storage_usage("DELETE", files[fid], files[fid], profiles)
  /\ share_links' = WithoutRows(share_links, LinksOf(fid))

Return(op, outcome, ret) == [op |-> op, outcome |-> outcome, ret |-> ret]

-----------------------------------------------------------------------------
(* Ownership Guard: SELECT owner_id ... / IF NOT FOUND / IF owner IS DISTINCT FROM uid *)

OwnerGuard(p_file_id, uid) ==
  IF p_file_id \notin DOMAIN files THEN NotFound
  ELSE IF IsDistinctFrom(Some(files[p_file_id].owner_id), uid) THEN NotAuthorized
  ELSE Success

-----------------------------------------------------------------------------
(* Name resolution in the SQL statements of the PL/pgSQL procedures.  The
   schema sets no plpgsql.variable_conflict, so the default (error) applies:
   a statement in which a column reference names both a column of the
   statement's table and a variable of the function (a parameter, an OUT
   column of RETURNS TABLE or a DECLAREd variable) raises 'column reference
   "..." is ambiguous' when the statement is first run; targets of INTO, SET
   and INSERT column lists are not column references. *)

VariableConflict(refs, variables) == refs \cap variables # {}

\* the variables of each procedure: parameters, RETURNS TABLE columns, DECLAREs
rename_file_vars ==
  {"p_file_id", "p_new_name", "p_new_original_name", "file_id", "name", "uid", "owner"}
soft_delete_file_vars == {"p_file_id", "file_id", "file_path", "uid", "owner"}
restore_file_vars == {"p_file_id", "file_id", "uid", "owner"}
permanently_delete_file_vars ==
  {"p_file_id", "file_id", "file_path", "uid", "owner", "fpath"}
create_share_link_vars ==
  {"p_file_id", "p_expires_hours", "p_password", "p_download_limit",
   "share_id", "token", "expires_at", "owner", "uid", "gen_token", "rec"}
get_file_by_token_vars ==
  {"p_token", "p_password", "file_id", "file_path", "file_name",
   "original_name", "file_type", "sl"}
bulk_insert_files_vars == {"p_records", "uid"}
list_files_vars == {"p_folder_id", "p_limit", "p_offset", "p_include_deleted", "uid"}

-----------------------------------------------------------------------------
(* File Registry operations *)

\* a call that raises, or a statement that changes no row
Fail(op, outcome) ==
  /\ result' = Return(op, outcome, NoReturn)
  /\ UNCHANGED <<profiles, files, share_links, nextFileId, nextLinkId, now, folders, nextFolderId, txn, redeem>>

InsertFileWithinQuota(uid, rec, owner) ==
  IF ~IsTrue(SqlEq(uid, Some(owner)))
  THEN Fail("insert_file", PolicyViolation)
  ELSE IF rec.folder_id # NULL /\ Val(rec.folder_id) \notin DOMAIN folders
  THEN Fail("insert_file", ForeignKeyViolation)
  ELSE IF profiles[owner].storage_used + rec.file_size > profiles[owner].storage_limit
  THEN Fail("insert_file", PolicyViolation)
  ELSE LET row == NewFileRow(rec, owner)
       IN  /\ files' = WithRow(files, nextFileId, row)
           /\ nextFileId' = nextFileId + 1
           /\ profiles' = update_storage_usage("INSERT", row, row, profiles)
           /\ result' = Return("insert_file", Success, Some(nextFileId))
           /\ UNCHANGED <<share_links, nextLinkId, now, folders, nextFolderId, txn, redeem>>

\* the client's upload: INSERT INTO files under policy "Users can create files"
InsertFile(uid, rec, owner) ==
  IF ~IsTrue(SqlEq(uid, Some(owner)))
  THEN Fail("insert_file", PolicyViolation)
  \* folder_id UUID REFERENCES public.folders(id)
  ELSE IF rec.folder_id # NULL /\ Val(rec.folder_id) \notin DOMAIN folders
  THEN Fail("insert_file", ForeignKeyViolation)
  ELSE LET row == NewFileRow(rec, owner)
       IN  /\ files' = WithRow(files, nextFileId, row)
           /\ nextFileId' = nextFileId + 1
           /\ profiles' = update_storage_usage("INSERT", row, row, profiles)
           /\ result' = Return("insert_file", Success, Some(nextFileId))
           /\ UNCHANGED <<share_links, nextLinkId, now, folders, nextFolderId, txn, redeem>>

BulkUsageFirstRow(rows, profs) ==
  IF rows = << >> THEN profs
  ELSE update_storage_usage("INSERT", Head(rows), Head(rows), profs)

\* the trigger fired once per inserted row, in insertion order
RECURSIVE BulkUsage(_, _)
BulkUsage(rows, profs) ==
  IF rows = << >> THEN profs
  ELSE BulkUsage(Tail(rows), update_storage_usage("INSERT", Head(rows), Head(rows), profs))

bulk_insert_files(uid, p_records) ==
  \* INSERT INTO files (...) SELECT r.name, ..., uid FROM jsonb_to_recordset(..) AS r(..)
  IF VariableConflict({"r.name", "r.original_name", "r.file_path", "r.file_type",
                       "r.file_size", "r.folder_id"}, bulk_insert_files_vars)
  THEN Fail("bulk_insert_files", AmbiguousColumn)
  \* owner_id UUID NOT NULL, for an anonymous caller
  ELSE IF uid = NULL THEN Fail("bulk_insert_files", NotNullViolation)
  \* name TEXT NOT NULL, for a record without the key "name": the INSERT
  \* statement fails as a whole
  ELSE IF \E k \in 1..Len(p_records) : p_records[k].name = NULL
  THEN Fail("bulk_insert_files", NotNullViolation)
  ELSE LET n == Len(p_records)
           rows == [k \in 1..n |->
                      NewFileRow([p_records[k] EXCEPT !.name = Val(@)], Val(uid))]
           ids == [k \in 1..n |-> nextFileId + k - 1]
       IN  /\ files' = [i \in DOMAIN files \cup {ids[k] : k \in 1..n} |->
                          IF i \in DOMAIN files THEN files[i]
                          ELSE rows[i - nextFileId + 1]]
           /\ nextFileId' = nextFileId + n
           /\ profiles' = BulkUsage(rows, profiles)
           /\ result' = Return("bulk_insert_files", Success, ids)
           /\ UNCHANGED <<share_links, nextLinkId, now, folders, nextFolderId, txn, redeem>>

rename_file(uid, p_file_id, p_new_name, p_new_original_name) ==
  LET g == OwnerGuard(p_file_id, uid) IN
  \* SELECT owner_id INTO owner FROM files WHERE id = p_file_id
  IF VariableConflict({"owner_id", "id"}, rename_file_vars)
  THEN Fail("rename_file", AmbiguousColumn)
  ELSE IF g # Success THEN Fail("rename_file", g)
  \* UPDATE files SET ... COALESCE(.., original_name) WHERE id = .. RETURNING id, name
  ELSE IF VariableConflict({"original_name", "id", "name"}, rename_file_vars)
  THEN Fail("rename_file", AmbiguousColumn)
  ELSE LET row == [files[p_file_id] EXCEPT
                     !.name = p_new_name,
                     !.original_name = IF p_new_original_name # NULL
                                       THEN Val(p_new_original_name) ELSE @]
       IN  /\ UpdateFileRow(p_file_id, row)
           /\ result' = Return("rename_file", Success,
                               [file_id |-> p_file_id, name |-> row.name])
           /\ UNCHANGED <<share_links, nextFileId, nextLinkId, now, folders, nextFolderId, txn, redeem>>

soft_delete_file(uid, p_file_id) ==
  LET g == OwnerGuard(p_file_id, uid) IN
  \* SELECT owner_id, file_path INTO owner, file_path FROM files WHERE id = p_file_id
  IF VariableConflict({"owner_id", "file_path", "id"}, soft_delete_file_vars)
  THEN Fail("soft_delete_file", AmbiguousColumn)
  ELSE IF g # Success THEN Fail("soft_delete_file", g)
  \* UPDATE files SET is_deleted = TRUE, deleted_at = NOW() WHERE id = p_file_id
  ELSE IF VariableConflict({"id"}, soft_delete_file_vars)
  THEN Fail("soft_delete_file", AmbiguousColumn)
  ELSE LET row == [files[p_file_id] EXCEPT !.is_deleted = TRUE, !.deleted_at = Some(now)]
       IN  /\ UpdateFileRow(p_file_id, row)
           /\ result' = Return("soft_delete_file", Success,
                               [file_id |-> p_file_id,
                                file_path |-> files[p_file_id].file_path])
           /\ UNCHANGED <<share_links, nextFileId, nextLinkId, now, folders, nextFolderId, txn, redeem>>

restore_file(uid, p_file_id) ==
  LET g == OwnerGuard(p_file_id, uid) IN
  \* SELECT owner_id INTO owner FROM files WHERE id = p_file_id
  IF VariableConflict({"owner_id", "id"}, restore_file_vars)
  THEN Fail("restore_file", AmbiguousColumn)
  ELSE IF g # Success THEN Fail("restore_file", g)
  \* UPDATE files SET is_deleted = FALSE, deleted_at = NULL WHERE id = p_file_id
  ELSE IF VariableConflict({"id"}, restore_file_vars)
  THEN Fail("restore_file", AmbiguousColumn)
  ELSE LET row == [files[p_file_id] EXCEPT !.is_deleted = FALSE, !.deleted_at = NULL]
       IN  /\ UpdateFileRow(p_file_id, row)
           /\ result' = Return("restore_file", Success, [file_id |-> p_file_id])
           /\ UNCHANGED <<share_links, nextFileId, nextLinkId, now, folders, nextFolderId, txn, redeem>>

permanently_delete_file(uid, p_file_id) ==
  LET g == OwnerGuard(p_file_id, uid) IN
  \* SELECT owner_id, file_path INTO owner, fpath FROM files WHERE id = p_file_id
  IF VariableConflict({"owner_id", "file_path", "id"}, permanently_delete_file_vars)
  THEN Fail("permanently_delete_file", AmbiguousColumn)
  ELSE IF g # Success THEN Fail("permanently_delete_file", g)
  \* DELETE FROM files WHERE id = p_file_id
  ELSE IF VariableConflict({"id"}, permanently_delete_file_vars)
  THEN Fail("permanently_delete_file", AmbiguousColumn)
  ELSE /\ DeleteFileRow(p_file_id)
       /\ result' = Return("permanently_delete_file", Success,
                           [file_id |-> p_file_id,
                            file_path |-> files[p_file_id].file_path])
       /\ UNCHANGED <<nextFileId, nextLinkId, now, folders, nextFolderId, txn, redeem>>

\* the client's "move to trash": UPDATE files SET is_deleted = true, deleted_at =
\* <client clock> WHERE id = fileId under policy "Users can update own files";
\* a row the caller does not own is not visible, 0 rows change and no error
deleteFile(uid, fileId) ==
  IF fileId \in DOMAIN files /\ uid = Some(files[fileId].owner_id)
  THEN /\ UpdateFileRow(fileId, [files[fileId] EXCEPT !.is_deleted = TRUE,
                                                      !.deleted_at = Some(now)])
       /\ result' = Return("deleteFile", Success, Some(fileId))
       /\ UNCHANGED <<share_links, nextFileId, nextLinkId, now, folders, nextFolderId, txn, redeem>>
  ELSE Fail("deleteFile", Success)

\* DELETE FROM files WHERE id = ... under policy "Users can delete own files"
DeleteOwnFile(uid, id) ==
  IF id \in DOMAIN files /\ uid = Some(files[id].owner_id)
  THEN /\ DeleteFileRow(id)
       /\ result' = Return("delete_own_file", Success, Some(id))
       /\ UNCHANGED <<nextFileId, nextLinkId, now, folders, nextFolderId, txn, redeem>>
  ELSE Fail("delete_own_file", Success)

\* UPDATE files SET file_size = ... WHERE id = ... under policy "Users can
\* update own files": a row the caller does not own is not visible, 0 rows change
UpdateFileSize(uid, p_file_id, p_file_size) ==
  IF p_file_id \in DOMAIN files /\ uid = Some(files[p_file_id].owner_id)
  THEN /\ UpdateFileRow(p_file_id, [files[p_file_id] EXCEPT !.file_size = p_file_size])
       /\ result' = Return("update_file_size", Success, Some(p_file_id))
       /\ UNCHANGED <<share_links, nextFileId, nextLinkId, now, folders, nextFolderId, txn, redeem>>
  ELSE Fail("update_file_size", Success)

\* UPDATE files SET owner_id = ... WHERE id = ... by the service role (no policy
\* lets a user hand a row to another owner)
TransferOwner(p_file_id, p_owner) ==
  /\ p_file_id \in DOMAIN files
  /\ UpdateFileRow(p_file_id, [files[p_file_id] EXCEPT !.owner_id = p_owner])
  /\ result' = Return("transfer_owner", Success, Some(p_file_id))
  /\ UNCHANGED <<share_links, nextFileId, nextLinkId, now, folders, nextFolderId, txn, redeem>>

\* UPDATE files SET owner_id = ..., file_size = ..., is_deleted = ..., deleted_at
\* = ... WHERE id = ... by the service role: one statement that may hand the
\* row to another owner, resize it and move it to or from the trash
UpdateFile(p_file_id, p_owner, p_file_size, p_is_deleted) ==
  /\ p_file_id \in DOMAIN files
  /\ UpdateFileRow(p_file_id,
                   [files[p_file_id] EXCEPT
                      !.owner_id = p_owner, !.file_size = p_file_size,
                      !.is_deleted = p_is_deleted,
                      !.deleted_at = IF p_is_deleted THEN Some(now) ELSE NULL])
  /\ result' = Return("update_file", Success, Some(p_file_id))
  /\ UNCHANGED <<share_links, nextFileId, nextLinkId, now, folders, nextFolderId, txn, redeem>>

\* UPDATE profiles SET storage_used = ... WHERE id = ... under policy "Users can
\* update own profile": another user's row is not visible, 0 rows change
UpdateProfile(uid, id, storage_used) ==
  IF id \in DOMAIN profiles /\ uid = Some(id)
  THEN /\ profiles' = [profiles EXCEPT ![id].storage_used = storage_used]
       /\ result' = Return("update_profile", Success, Some(id))
       /\ UNCHANGED <<files, share_links, nextFileId, nextLinkId, now, folders, nextFolderId, txn, redeem>>
  ELSE Fail("update_profile", Success)

-----------------------------------------------------------------------------
(* Share Token Service *)

\* INSERT INTO share_links: download_count 0 and is_active TRUE by default
NewShareLink(file_id, token, password, expires_at, download_limit, created_by) ==
  [file_id |-> file_id, token |-> token, password |-> password,
   expires_at |-> expires_at, download_limit |-> download_limit,
   download_count |-> 0, created_by |-> created_by,
   is_active |-> TRUE]

TokenTakenNever(token) == FALSE

\* token TEXT NOT NULL UNIQUE
TokenTaken(token) == \E l \in DOMAIN share_links : share_links[l].token = token

create_share_link(uid, p_file_id, p_expires_hours, p_password, p_download_limit, gen_token) ==
  LET g == OwnerGuard(p_file_id, uid) IN
  \* SELECT owner_id INTO owner FROM files WHERE id = p_file_id
  IF VariableConflict({"owner_id", "id"}, create_share_link_vars)
  THEN Fail("create_share_link", AmbiguousColumn)
  ELSE IF g # Success THEN Fail("create_share_link", g)
  \* INSERT INTO share_links (...) VALUES (...) RETURNING id, token, expires_at
  ELSE IF VariableConflict({"id", "token", "expires_at"}, create_share_link_vars)
  THEN Fail("create_share_link", AmbiguousColumn)
  ELSE IF uid = NULL THEN Fail("create_share_link", NotNullViolation)
  ELSE IF TokenTaken(gen_token) THEN Fail("create_share_link", UniqueViolation)
  ELSE LET rec == NewShareLink(p_file_id, gen_token, p_password,
                    IF p_expires_hours # NULL
                    THEN Some(now + Val(p_expires_hours)) ELSE NULL,
                    p_download_limit, Val(uid))
       IN  /\ share_links' = WithRow(share_links, nextLinkId, rec)
           /\ nextLinkId' = nextLinkId + 1
           /\ result' = Return("create_share_link", Success,
                               [share_id |-> nextLinkId, token |-> rec.token,
                                expires_at |-> rec.expires_at])
           /\ UNCHANGED <<profiles, files, nextFileId, now, folders, nextFolderId, txn, redeem>>

\* INSERT INTO share_links (file_id, token, password, expires_at, download_limit,
\* created_by) under policy "Users can create share links", which checks
\* created_by only
InsertShareLinkRow(uid, file_id, token, password, expires_at, download_limit, created_by) ==
  IF ~IsTrue(SqlEq(uid, Some(created_by))) THEN Fail("insert_share_link", PolicyViolation)
  ELSE IF TokenTaken(token) THEN Fail("insert_share_link", UniqueViolation)
  ELSE IF file_id \notin DOMAIN files THEN Fail("insert_share_link", ForeignKeyViolation)
  ELSE /\ share_links' = WithRow(share_links, nextLinkId,
                           NewShareLink(file_id, token, password, expires_at,
                                        download_limit, created_by))
       /\ nextLinkId' = nextLinkId + 1
       /\ result' = Return("insert_share_link", Success, Some(nextLinkId))
       /\ UNCHANGED <<profiles, files, nextFileId, now, folders, nextFolderId, txn, redeem>>

\* the client's share dialog: INSERT INTO share_links (file_id, token, created_by)
InsertShareLink(uid, file_id, token, created_by) ==
  InsertShareLinkRow(uid, file_id, token, NULL, NULL, NULL, created_by)

\* UPDATE share_links SET is_active = TRUE WHERE id = ... under the same policy
\* as the deactivation below: USING (auth.uid() = created_by) and no WITH CHECK
ReactivateShareLink(uid, link_id) ==
  IF link_id \in DOMAIN share_links /\ uid = Some(share_links[link_id].created_by)
  THEN /\ share_links' = [share_links EXCEPT ![link_id].is_active = TRUE]
       /\ result' = Return("reactivate_share_link", Success, Some(link_id))
       /\ UNCHANGED <<profiles, files, nextFileId, nextLinkId, now, folders, nextFolderId, txn, redeem>>
  ELSE Fail("reactivate_share_link", Success)

\* UPDATE share_links SET is_active = FALSE WHERE id = ... under policy "Users
\* can update own share links": a link the caller did not create is not visible
DeactivateShareLink(uid, link_id) ==
  IF link_id \in DOMAIN share_links /\ uid = Some(share_links[link_id].created_by)
  THEN /\ share_links' = [share_links EXCEPT ![link_id].is_active = FALSE]
       /\ result' = Return("deactivate_share_link", Success, Some(link_id))
       /\ UNCHANGED <<profiles, files, nextFileId, nextLinkId, now, folders, nextFolderId, txn, redeem>>
  ELSE Fail("deactivate_share_link", Success)

\* DELETE FROM share_links WHERE id = ... under policy "Users can delete own
\* share links": a link the caller did not create is not visible
DeleteShareLink(uid, link_id) ==
  IF link_id \in DOMAIN share_links /\ uid = Some(share_links[link_id].created_by)
  THEN /\ share_links' = WithoutRows(share_links, {link_id})
       /\ result' = Return("delete_share_link", Success, Some(link_id))
       /\ UNCHANGED <<profiles, files, nextFileId, nextLinkId, now, folders, nextFolderId, txn, redeem>>
  ELSE Fail("delete_share_link", Success)

\* SELECT * INTO sl FROM share_links WHERE token = p_token AND is_active = TRUE LIMIT 1
LookupToken(p_token) ==
  {l \in DOMAIN share_links :
     share_links[l].token = p_token /\ share_links[l].is_active = TRUE}

\* the guards of get_file_by_token on the row sl it read
RedeemGuardsLimitFirst(sl, p_password) ==
  IF IsTrue(SqlAnd(IsNotNull(sl.expires_at), SqlLt(sl.expires_at, Some(now))))
  THEN Expired
  ELSE IF IsTrue(SqlAnd(IsNotNull(sl.download_limit),
                        SqlGe(Some(sl.download_count), sl.download_limit)))
  THEN LimitReached
  ELSE IF IsTrue(SqlAnd(IsNotNull(sl.password), SqlNe(sl.password, p_password)))
  THEN InvalidPassword
  ELSE Success

RedeemGuardsOneOverLimit(sl, p_password) ==
  IF IsTrue(SqlAnd(IsNotNull(sl.expires_at), SqlLt(sl.expires_at, Some(now))))
  THEN Expired
  ELSE IF IsTrue(SqlAnd(IsNotNull(sl.password), SqlNe(sl.password, p_password)))
  THEN InvalidPassword
  ELSE IF IsTrue(SqlAnd(IsNotNull(sl.download_limit),
                        SqlGe(Some(sl.download_count - 1), sl.download_limit)))
  THEN LimitReached
  ELSE Success

RedeemGuards(sl, p_password) ==
  IF IsTrue(SqlAnd(IsNotNull(sl.expires_at), SqlLt(sl.expires_at, Some(now))))
  THEN Expired
  ELSE IF IsTrue(SqlAnd(IsNotNull(sl.password), SqlNe(sl.password, p_password)))
  THEN InvalidPassword
  ELSE IF IsTrue(SqlAnd(IsNotNull(sl.download_limit),
                        SqlGe(Some(sl.download_count), sl.download_limit)))
  THEN LimitReached
  ELSE Success

\* a redeemer between calls: the password it presented last, what that call
\* raised or returned, and the link it read
Idle(p_password, outcome, link, ret) ==
  [pc |-> "idle", password |-> p_password, outcome |-> outcome, link |-> link,
   ret |-> ret]

RedeemLookupCountingFailures(r, p_token, p_password) ==
  /\ redeem[r].pc = "idle"
  /\ LET found == LookupToken(p_token) IN
     IF found = {}
     THEN /\ redeem' = [redeem EXCEPT ![r] = Idle(p_password, InvalidToken, NULL, NoReturn)]
          /\ share_links' = share_links
     ELSE LET id == CHOOSE l \in found : TRUE
              g == RedeemGuards(share_links[id], p_password)
          IN  IF g # Success
              THEN /\ redeem' = [redeem EXCEPT ![r] =
                                   Idle(p_password, g, Some(id), NoReturn)]
                   /\ share_links' = [share_links EXCEPT ![id].download_count = @ + 1]
              ELSE /\ redeem' = [redeem EXCEPT ![r] =
                                   [pc |-> "checked", password |-> p_password,
                                    outcome |-> "pending",
                                    link |-> Some(id),
                                    ret |-> [file_id |-> share_links[id].file_id]]]
                   /\ share_links' = share_links
  /\ UNCHANGED <<profiles, files, nextFileId, nextLinkId, now, folders, nextFolderId, txn, result>>

\* get_file_by_token, first statement and guards: the row is read without a lock
RedeemLookup(r, p_token, p_password) ==
  /\ redeem[r].pc = "idle"
  /\ LET found == LookupToken(p_token) IN
     IF VariableConflict({"token", "is_active"}, get_file_by_token_vars)
     THEN redeem' = [redeem EXCEPT ![r] = Idle(p_password, AmbiguousColumn, NULL, NoReturn)]
     ELSE IF found = {}
     THEN redeem' = [redeem EXCEPT ![r] = Idle(p_password, InvalidToken, NULL, NoReturn)]
     ELSE LET id == CHOOSE l \in found : TRUE
              g == RedeemGuards(share_links[id], p_password)
          IN  IF g # Success
              THEN redeem' = [redeem EXCEPT ![r] =
                                Idle(p_password, g, Some(id), NoReturn)]
              ELSE redeem' = [redeem EXCEPT ![r] =
                                [pc |-> "checked", password |-> p_password,
                                 outcome |-> "pending",
                                 link |-> Some(id),
                                 ret |-> [file_id |-> share_links[id].file_id]]]
  /\ UNCHANGED <<profiles, files, share_links, nextFileId, nextLinkId, now, folders, nextFolderId, txn, result>>

RedeemCommitKeepsIncrement(r) ==
  /\ redeem[r].pc = "checked"
  /\ LET id == Val(redeem[r].link)
         fid == redeem[r].ret.file_id
     IN  /\ share_links' =
              IF id \in DOMAIN share_links
              THEN [share_links EXCEPT ![id].download_count = @ + 1]
              ELSE share_links
         /\ IF fid \in DOMAIN files /\ ~files[fid].is_deleted
            THEN redeem' = [redeem EXCEPT ![r] =
                   Idle(redeem[r].password, Success, Some(id),
                        [file_id |-> fid, file_path |-> files[fid].file_path,
                         file_name |-> files[fid].name,
                         original_name |-> files[fid].original_name,
                         file_type |-> files[fid].file_type])]
            ELSE redeem' = [redeem EXCEPT ![r] =
                   Idle(redeem[r].password, FileUnavailable, Some(id), NoReturn)]
  /\ UNCHANGED <<profiles, files, nextFileId, nextLinkId, now, folders, nextFolderId, txn, result>>

RedeemCommitIgnoringTrash(r) ==
  /\ redeem[r].pc = "checked"
  /\ LET id == Val(redeem[r].link)
         fid == redeem[r].ret.file_id
     IN  IF fid \in DOMAIN files
         THEN /\ share_links' =
                   IF id \in DOMAIN share_links
                   THEN [share_links EXCEPT ![id].download_count = @ + 1]
                   ELSE share_links
              /\ redeem' = [redeem EXCEPT ![r] =
                   Idle(redeem[r].password, Success, Some(id),
                        [file_id |-> fid, file_path |-> files[fid].file_path,
                         file_name |-> files[fid].name,
                         original_name |-> files[fid].original_name,
                         file_type |-> files[fid].file_type])]
         ELSE /\ share_links' = share_links
              /\ redeem' = [redeem EXCEPT ![r] =
                   Idle(redeem[r].password, FileUnavailable, Some(id), NoReturn)]
  /\ UNCHANGED <<profiles, files, nextFileId, nextLinkId, now, folders, nextFolderId, txn, result>>

\* get_file_by_token, the increment, the file query and the end of the call.
\* RAISE EXCEPTION 'File not available' aborts the statement that called the
\* function, so the UPDATE the function made before it is undone with it
RedeemCommit(r) ==
  /\ redeem[r].pc = "checked"
  /\ LET id == Val(redeem[r].link)
         fid == redeem[r].ret.file_id
     IN  \* UPDATE share_links SET download_count = download_count + 1 WHERE id = sl.id
         \* SELECT f.id, f.file_path, ... FROM files f WHERE f.id = sl.file_id ...
         IF VariableConflict({"download_count", "id", "f.id", "f.file_path", "f.name",
                              "f.original_name", "f.file_type", "f.is_deleted"},
                             get_file_by_token_vars)
         THEN /\ share_links' = share_links
              /\ redeem' = [redeem EXCEPT ![r] =
                   Idle(redeem[r].password, AmbiguousColumn, Some(id), NoReturn)]
         ELSE IF fid \in DOMAIN files /\ ~files[fid].is_deleted
         THEN /\ share_links' =
                   IF id \in DOMAIN share_links
                   THEN [share_links EXCEPT ![id].download_count = @ + 1]
                   ELSE share_links
              /\ redeem' = [redeem EXCEPT ![r] =
                   Idle(redeem[r].password, Success, Some(id),
                        [file_id |-> fid, file_path |-> files[fid].file_path,
                         file_name |-> files[fid].name,
                         original_name |-> files[fid].original_name,
                         file_type |-> files[fid].file_type])]
         ELSE /\ share_links' = share_links
              /\ redeem' = [redeem EXCEPT ![r] =
                   Idle(redeem[r].password, FileUnavailable, Some(id), NoReturn)]
  /\ UNCHANGED <<profiles, files, nextFileId, nextLinkId, now, folders, nextFolderId, txn, result>>

Tick ==
  /\ now < MaxTime
  /\ now' = now + 1
  /\ UNCHANGED <<profiles, files, share_links, nextFileId, nextLinkId, redeem, result,
               folders, nextFolderId, txn>>

-----------------------------------------------------------------------------
(* Initial state: every user signed up (handle_new_user), no files, no links *)

Redeemers == {"r1", "r2"}
Sessions == {"s1", "s2"}

\* a session with no open transaction: the statement it ran last, the file it
\* named, whether it had to wait for a row lock, and what it did to the ledger
NoTxn(op, fid, waited, outcome) ==
  [pc |-> "idle", op |-> op, fid |-> fid, waited |-> waited,
   outcome |-> outcome]

Init ==
  /\ profiles = [u \in Users \cup {Bystander} |->
                   [storage_used |-> 0, storage_limit |-> DefaultStorageLimit]]
  /\ files = [i \in {} |-> NULL]
  /\ share_links = [i \in {} |-> NULL]
  /\ nextFileId = 1
  /\ nextLinkId = 1
  /\ now = 0
  /\ redeem = [r \in Redeemers |-> Idle(NULL, "none", NULL, NoReturn)]
  /\ result = Return("none", "none", NoReturn)
  /\ folders = [i \in {} |-> NULL]
  /\ nextFolderId = 1
  /\ txn = [s \in Sessions |-> NoTxn("none", 0, FALSE, "none")]

-----------------------------------------------------------------------------
(* Inputs *)

FileIds == 1..MaxFiles
LinkIds == 1..MaxLinks
LedgerFileIds == 1..LedgerFiles

\* what the client sends for an upload of the given size: the locator is
\* "<user id>/<random>-<time>.<ext>", one per upload
Upload(size) ==
  [name |-> "a.txt", original_name |-> "a.txt",
   file_path |-> <<"user-files", nextFileId>>, file_type |-> "text/plain",
   file_size |-> size, folder_id |-> NULL]

Sizes == {-1, 1, 2}
\* an element of p_records: jsonb_to_recordset gives NULL for a key the object
\* does not have, so a text column of the record is an option
Record(name, size, k) ==
  [name |-> name, original_name |-> "a.txt",
   file_path |-> <<"user-files", nextFileId + k>>, file_type |-> "text/plain",
   file_size |-> size, folder_id |-> NULL]
Batches ==
  {<<Record(Some("a.txt"), 1, 0)>>,
   <<Record(Some("a.txt"), 1, 0), Record(Some("b.txt"), 2, 1)>>,
   <<Record(Some("a.txt"), 1, 0), Record(NULL, 2, 1)>>}
Tokens == {"t1", "t2"}
Passwords == {NULL, Some("pw")}
Presented == {NULL, Some("pw"), Some("bad")}
Hours == {NULL, Some(1)}
Expiries == {NULL, Some(1)}
Limits == {NULL, Some(1), Some(2)}

-----------------------------------------------------------------------------
(* The guarded procedures, called one at a time by any caller *)

Next ==
  \/ /\ nextFileId <= MaxFiles
     /\ \E uid \in Callers, owner \in Users : InsertFile(uid, Upload(1), owner)
  \/ \E uid \in Callers, f \in FileIds, orig \in {NULL, Some("b.txt")} :
       rename_file(uid, f, "b.txt", orig)
  \/ \E uid \in Callers, f \in FileIds : soft_delete_file(uid, f)
  \/ \E uid \in Callers, f \in FileIds : restore_file(uid, f)
  \/ \E uid \in Callers, f \in FileIds : permanently_delete_file(uid, f)
  \/ /\ nextLinkId <= MaxLinks
     /\ \E uid \in Callers, f \in FileIds, tok \in Tokens :
          create_share_link(uid, f, NULL, NULL, NULL, tok)
  \/ \E uid \in Callers, f \in FileIds : deleteFile(uid, f)
  \/ \E uid \in Callers, f \in FileIds : DeleteOwnFile(uid, f)
  \/ /\ nextLinkId <= MaxLinks
     /\ \E u \in Users, f \in FileIds : InsertShareLink(Some(u), f, "t1", u)

Spec == Init /\ [][Next]_vars

-----------------------------------------------------------------------------
(* Creation of share links, by the procedure and by the client's insert *)

NextShare ==
  \/ /\ nextFileId <= MaxFiles
     /\ InsertFile(Some("A"), Upload(1), "A")
  \/ /\ nextLinkId <= ShareLinks
     /\ \E uid \in Callers, f \in FileIds, h \in Hours, pw \in Passwords,
           lim \in {NULL, Some(1)}, tok \in Tokens :
          create_share_link(uid, f, h, pw, lim, tok)
  \/ /\ nextLinkId <= ShareLinks
     /\ \E uid \in Callers, f \in FileIds, tok \in Tokens, by \in Users :
          InsertShareLink(uid, f, tok, by)
  \/ /\ nextLinkId <= ShareLinks
     /\ \E u \in Users, f \in FileIds, tok \in Tokens, pw \in Passwords,
           e \in Expiries, lim \in {NULL, Some(1)} :
          InsertShareLinkRow(Some(u), f, tok, pw, e, lim, u)
  \/ Tick

SpecShare == Init /\ [][NextShare]_vars

-----------------------------------------------------------------------------
(* The ledger under the registry's mutations, one transaction at a time *)

NextLedger ==
  \/ /\ nextFileId <= LedgerFiles
     /\ \E uid \in Callers, owner \in Users, size \in Sizes :
          InsertFile(uid, Upload(size), owner)
  \/ \E uid \in Callers, b \in Batches :
       /\ nextFileId + Len(b) - 1 <= LedgerFiles
       /\ bulk_insert_files(uid, b)
  \/ \E uid \in Callers, f \in LedgerFileIds : soft_delete_file(uid, f)
  \/ \E uid \in Callers, f \in LedgerFileIds : restore_file(uid, f)
  \/ \E uid \in Callers, f \in LedgerFileIds : permanently_delete_file(uid, f)
  \/ \E uid \in Callers, f \in LedgerFileIds, size \in Sizes : UpdateFileSize(uid, f, size)
  \/ \E f \in LedgerFileIds, owner \in Users : TransferOwner(f, owner)
  \/ \E uid \in Callers, f \in LedgerFileIds : deleteFile(uid, f)
  \/ \E uid \in Callers, f \in LedgerFileIds : DeleteOwnFile(uid, f)

SpecLedger == Init /\ [][NextLedger]_vars

\* the sum of file_size over the files of owner u that are not soft-deleted
RECURSIVE SumSizes(_)
SumSizes(S) ==
  IF S = {} THEN 0
  ELSE LET f == CHOOSE x \in S : TRUE
       IN  files[f].file_size + SumSizes(S \ {f})

Counted(u) == {f \in DOMAIN files : files[f].owner_id = u /\ ~files[f].is_deleted}

\* C1: every account's storage_used equals the sum of file_size over the files
\* it owns that are not soft-deleted.
LedgerEqualsSum ==
  \A u \in Users : profiles[u].storage_used = SumSizes(Counted(u))

-----------------------------------------------------------------------------
(* The ledger after an out-of-band correction of a profile row; every file
   size is non-negative here *)

NonNegSizes == {0, 1, 2}
Corrections == {0, 1}

NextDrift ==
  \/ /\ nextFileId <= LedgerFiles
     /\ \E uid \in Callers, owner \in Users, size \in NonNegSizes :
          InsertFile(uid, Upload(size), owner)
  \/ \E uid \in Callers, f \in LedgerFileIds : soft_delete_file(uid, f)
  \/ \E uid \in Callers, f \in LedgerFileIds : restore_file(uid, f)
  \/ \E uid \in Callers, f \in LedgerFileIds : permanently_delete_file(uid, f)
  \/ \E uid \in Callers, f \in LedgerFileIds, size \in NonNegSizes : UpdateFileSize(uid, f, size)
  \/ \E f \in LedgerFileIds, owner \in Users : TransferOwner(f, owner)
  \/ \E uid \in Callers, u \in Users, v \in Corrections : UpdateProfile(uid, u, v)
  \/ \E uid \in Callers, f \in LedgerFileIds : deleteFile(uid, f)
  \/ \E uid \in Callers, f \in LedgerFileIds : DeleteOwnFile(uid, f)

SpecDrift == Init /\ [][NextDrift]_vars

\* C2: storage_used is never negative, whatever the order of the ledger
\* adjustments.
LedgerNonNegative ==
  \A u \in Users : profiles[u].storage_used >= 0

-----------------------------------------------------------------------------
(* Redemption by one caller at a time: every guard of get_file_by_token, on a
   link with token "t1" that its creator inserted with a password, an expiry
   and a limit; no link has token "t2" *)

NextGuards ==
  \/ /\ nextFileId <= MaxFiles
     /\ InsertFile(Some("A"), Upload(1), "A")
  \/ /\ nextLinkId <= MaxLinks
     /\ \E f \in FileIds, e \in Expiries, pw \in Passwords, lim \in Limits :
          InsertShareLinkRow(Some("A"), f, "t1", pw, e, lim, "A")
  \/ \E l \in LinkIds : DeactivateShareLink(Some("A"), l)
  \/ \E l \in LinkIds : ReactivateShareLink(Some("A"), l)
  \/ \E tok \in Tokens, pw \in Presented : RedeemLookup("r1", tok, pw)
  \/ /\ \A l \in DOMAIN share_links : share_links[l].download_count < MaxCount
     /\ RedeemCommit("r1")
  \/ Tick

SpecGuards == Init /\ [][NextGuards]_vars

-----------------------------------------------------------------------------
(* Redemption by two concurrent callers; each statement of get_file_by_token
   reads the rows committed when it runs (READ COMMITTED) *)

NextRace ==
  \/ /\ nextFileId <= MaxFiles
     /\ InsertFile(Some("A"), Upload(1), "A")
  \/ /\ nextLinkId <= MaxLinks
     /\ \E f \in FileIds, lim \in Limits, tok \in Tokens :
          InsertShareLinkRow(Some("A"), f, tok, NULL, NULL, lim, "A")
  \/ \E f \in FileIds : deleteFile(Some("A"), f)
  \/ \E f \in FileIds : restore_file(Some("A"), f)
  \/ \E r \in Redeemers, tok \in Tokens : RedeemLookup(r, tok, NULL)
  \/ \E r \in Redeemers :
       /\ \A l \in DOMAIN share_links : share_links[l].download_count < MaxCount
       /\ RedeemCommit(r)

SpecRace == Init /\ [][NextRace]_vars

\* C3: a link with download_limit = 1 is never redeemed successfully by both
\* concurrent callers.
SingleUseLinkRedeemedOnce ==
  \A l \in DOMAIN share_links :
    share_links[l].download_limit = Some(1) =>
      ~(\A r \in Redeemers :
          /\ redeem[r].pc = "idle"
          /\ redeem[r].outcome = Success
          /\ redeem[r].link = Some(l))

\* C4: download_count never exceeds download_limit when a limit is set.
CountWithinLimit ==
  \A l \in DOMAIN share_links :
    share_links[l].download_limit # NULL =>
      share_links[l].download_count <= Val(share_links[l].download_limit)

IsExpired(sl) == sl.expires_at # NULL /\ Val(sl.expires_at) < now
LimitIsReached(sl) ==
  sl.download_limit # NULL /\ sl.download_count >= Val(sl.download_limit)

\* C5: a caller who presents another password than the link's, or none, never
\* gets past the password guard of a link that has a password: the call ends
\* with InvalidPassword (or with Expired, the guard before it) and returns
\* no file.
PasswordRequired ==
  \A r \in Redeemers, l \in DOMAIN share_links :
    (/\ redeem[r].link = Some(l)
     /\ share_links[l].password # NULL
     /\ redeem[r].password # share_links[l].password)
    => /\ redeem[r].pc = "idle"
       /\ redeem[r].outcome \in {InvalidPassword, Expired}
       /\ redeem[r].ret = NoReturn

\* C6: the guards decide in the order expired, password, limit.  For the link
\* the lookup finds: an expired link fails with Expired whatever the password
\* and the count; on an unexpired link a wrong password fails with
\* InvalidPassword even when the limit is reached; LimitReached is the outcome
\* only when the link is unexpired and the password guard passes.
GuardOrder ==
  [][\A tok \in Tokens, pw \in Presented :
       RedeemLookup("r1", tok, pw) =>
         \A l \in LookupToken(tok) :
           LET sl == share_links[l]
               wrong == sl.password # NULL /\ pw # NULL /\ pw # sl.password
               out == redeem'["r1"].outcome
           IN  /\ IsExpired(sl) => out = Expired
               /\ ~IsExpired(sl) /\ wrong => out = InvalidPassword
               /\ out = LimitReached => ~IsExpired(sl) /\ ~wrong /\ LimitIsReached(sl)
               /\ out = InvalidPassword => ~IsExpired(sl)]_vars

\* a wrong password was refused on an unexpired link whose limit is reached
WrongPasswordOnExhaustedLink ==
  \E l \in DOMAIN share_links :
    /\ redeem["r1"].link = Some(l)
    /\ redeem["r1"].outcome = InvalidPassword
    /\ redeem["r1"].password = Some("bad")
    /\ share_links[l].is_active
    /\ ~IsExpired(share_links[l])
    /\ LimitIsReached(share_links[l])

-----------------------------------------------------------------------------
(* Ownership Guard *)

Registry == <<profiles, files, share_links, nextFileId, nextLinkId>>

\* C7: rename_file, soft_delete_file, restore_file and permanently_delete_file
\* called on an existing file by anyone but its owner fail with NotAuthorized
\* and change no file, no ledger and no share link.
NonOwnerIsRefused ==
  [][\A uid \in Callers, f \in DOMAIN files :
       (/\ uid # Some(files[f].owner_id)
        /\ \/ \E orig \in {NULL, Some("b.txt")} : rename_file(uid, f, "b.txt", orig)
           \/ soft_delete_file(uid, f)
           \/ restore_file(uid, f)
           \/ permanently_delete_file(uid, f))
       => /\ result'.outcome = NotAuthorized
          /\ result'.ret = NoReturn
          /\ UNCHANGED Registry]_vars

\* a call of one of the five guarded procedures by uid on file id f
GuardedCall(uid, f) ==
  \/ \E orig \in {NULL, Some("b.txt")} : rename_file(uid, f, "b.txt", orig)
  \/ soft_delete_file(uid, f)
  \/ restore_file(uid, f)
  \/ permanently_delete_file(uid, f)
  \/ \E tok \in Tokens : create_share_link(uid, f, NULL, NULL, NULL, tok)

\* C8: each guarded procedure checks existence before ownership: a file id that
\* does not exist gives NotFound to every caller, NotAuthorized is given only
\* for an existing file owned by someone else, and neither changes anything.
ExistenceBeforeOwnership ==
  [][\A uid \in Callers, f \in FileIds :
       GuardedCall(uid, f) =>
         /\ f \notin DOMAIN files => result'.outcome = NotFound
         /\ result'.outcome = NotAuthorized =>
              f \in DOMAIN files /\ uid # Some(files[f].owner_id)
         /\ result'.outcome \in {NotFound, NotAuthorized} =>
              result'.ret = NoReturn /\ UNCHANGED Registry]_vars

-----------------------------------------------------------------------------
(* Share link creation *)

\* C9: create_share_link succeeds only for the file's owner, and a call by the
\* owner of an existing file (the generated token being fresh) succeeds: it
\* adds exactly one link, bound to the file, with download_count 0, is_active
\* TRUE, created_by the caller, the given password and limit and expires_at =
\* now + expires_hours (absent when no hours are given); it returns the link's
\* id, token and expiry and changes no file and no ledger.
CreateShareLinkEffect ==
  [][result'.op = "create_share_link" =>
     \A uid \in Callers, f \in FileIds, h \in Hours, pw \in Passwords,
        lim \in {NULL, Some(1)}, tok \in Tokens :
       create_share_link(uid, f, h, pw, lim, tok)
       => LET owned == f \in DOMAIN files /\ uid = Some(files[f].owner_id)
              id == result'.ret.share_id
              expiry == IF h = NULL THEN NULL ELSE Some(now + Val(h))
          IN  /\ result'.outcome = Success => owned
              /\ (owned /\ ~TokenTaken(tok)) =>
                   /\ result'.outcome = Success
                   /\ id \notin DOMAIN share_links
                   /\ DOMAIN share_links' = DOMAIN share_links \cup {id}
                   /\ \A l \in DOMAIN share_links : share_links'[l] = share_links[l]
                   /\ share_links'[id] =
                        [file_id |-> f, token |-> tok, password |-> pw,
                         expires_at |-> expiry, download_limit |-> lim,
                         download_count |-> 0, created_by |-> Val(uid),
                         is_active |-> TRUE]
                   /\ result'.ret = [share_id |-> id, token |-> tok, expires_at |-> expiry]
                   /\ UNCHANGED <<profiles, files>>]_vars

\* C10: every share link is created by the owner of its file, on every path
\* that inserts one.
LinkCreatedByFileOwner ==
  [][\A l \in DOMAIN share_links' \ DOMAIN share_links :
       share_links'[l].created_by = files'[share_links'[l].file_id].owner_id]_vars

-----------------------------------------------------------------------------
(* Token uniqueness *)

\* C11: no two share links ever have the same token, whatever tokens the
\* callers and the random source produce.
TokensUnique ==
  \A l1, l2 \in DOMAIN share_links :
    share_links[l1].token = share_links[l2].token => l1 = l2

\* an insert was refused because its token is the token of the existing link
CollidingTokenRefused ==
  /\ result.op = "insert_share_link"
  /\ result.outcome = UniqueViolation
  /\ Cardinality(DOMAIN share_links) = 1

\* C12: when the token create_share_link generates is the token of an existing
\* link, the call by the file's owner still completes with a link under a
\* fresh token.
CollisionIsRetried ==
  [][result'.op = "create_share_link" =>
     \A f \in FileIds, h \in Hours, pw \in Passwords, lim \in {NULL, Some(1)},
        tok \in Tokens :
       (/\ f \in DOMAIN files
        /\ TokenTaken(tok)
        /\ create_share_link(Some(files[f].owner_id), f, h, pw, lim, tok))
       => /\ result'.outcome = Success
          /\ ~TokenTaken(result'.ret.token)
          /\ Cardinality(DOMAIN share_links') = Cardinality(DOMAIN share_links) + 1]_vars

-----------------------------------------------------------------------------
(* Redemption against a soft-deleted file *)

\* the file a redemption in progress is bound to is soft-deleted or gone
BoundFileUnavailable(r) ==
  LET fid == redeem[r].ret.file_id
  IN  fid \notin DOMAIN files \/ files[fid].is_deleted

\* C13 as amended: a redemption that passed the guards but whose file is
\* soft-deleted fails with FileUnavailable and returns nothing, and its
\* increment is undone with the failed call: every link, download_count
\* included, is as before the call.
UnavailableFileRollsBack ==
  [][\A r \in Redeemers :
       RedeemCommit(r) =>
         /\ BoundFileUnavailable(r) =>
              /\ redeem'[r].outcome = FileUnavailable
              /\ redeem'[r].ret = NoReturn
              /\ share_links' = share_links
         /\ redeem'[r].outcome = FileUnavailable => BoundFileUnavailable(r)]_vars

\* C13 as stated: after the call that failed with FileUnavailable the link's
\* download_count is one higher than before it.
UnavailableFileConsumesUse ==
  [][\A r \in Redeemers :
       (RedeemCommit(r) /\ BoundFileUnavailable(r)) =>
         /\ redeem'[r].outcome = FileUnavailable
         /\ \A l \in DOMAIN share_links :
              redeem[r].link = Some(l) =>
                share_links'[l].download_count = share_links[l].download_count + 1]_vars

\* a redemption of a single-use link failed with FileUnavailable and the link
\* is still unused
UnusedAfterUnavailable ==
  \E r \in Redeemers, l \in DOMAIN share_links :
    /\ redeem[r].pc = "idle"
    /\ redeem[r].outcome = FileUnavailable
    /\ redeem[r].link = Some(l)
    /\ share_links[l].download_limit = Some(1)
    /\ share_links[l].download_count = 0
    /\ files[share_links[l].file_id].is_deleted

-----------------------------------------------------------------------------
(* Inactive links and limited links, one redemption at a time *)

\* C14: a link with is_active = FALSE is never redeemed: a redemption of a
\* token whose links are all inactive fails with InvalidToken, returns nothing
\* and leaves every link as it was; and no step sets is_active back to TRUE.
InactiveLinkStaysDead ==
  [][/\ \A tok \in Tokens, pw \in Presented :
          (/\ RedeemLookup("r1", tok, pw)
           /\ \E l \in DOMAIN share_links : share_links[l].token = tok
           /\ LookupToken(tok) = {})
          => /\ redeem'["r1"].pc = "idle"
             /\ redeem'["r1"].outcome = InvalidToken
             /\ redeem'["r1"].ret = NoReturn
             /\ share_links' = share_links
     /\ \A l \in DOMAIN share_links \cap DOMAIN share_links' :
          ~share_links[l].is_active => ~share_links'[l].is_active]_vars

\* the password the caller presents passes the password guard of link sl
RightPassword(sl, pw) == sl.password = NULL \/ pw = sl.password

\* C18: on an active, unexpired link with download_limit = L whose file is not
\* soft-deleted, a redemption with the right password succeeds and raises
\* download_count by one while download_count < L, and fails with LimitReached
\* and leaves download_count alone once download_count = L; download_count
\* never passes L.
LimitedLinkRedeemsUpToLimit ==
  [][/\ \A tok \in Tokens, pw \in Presented : \A l \in LookupToken(tok) :
          LET sl == share_links[l] IN
          (/\ RedeemLookup("r1", tok, pw)
           /\ sl.download_limit # NULL
           /\ ~IsExpired(sl)
           /\ RightPassword(sl, pw))
          => IF sl.download_count < Val(sl.download_limit)
             THEN redeem'["r1"].pc = "checked" /\ redeem'["r1"].link = Some(l)
             ELSE /\ redeem'["r1"].pc = "idle"
                  /\ redeem'["r1"].outcome = LimitReached
                  /\ redeem'["r1"].ret = NoReturn
                  /\ share_links' = share_links
     /\ \A l \in DOMAIN share_links :
          (/\ RedeemCommit("r1")
           /\ redeem["r1"].link = Some(l)
           /\ ~BoundFileUnavailable("r1"))
          => /\ redeem'["r1"].outcome = Success
             /\ share_links'[l].download_count = share_links[l].download_count + 1
     /\ \A l \in DOMAIN share_links \cap DOMAIN share_links' :
          /\ share_links'[l].download_count # share_links[l].download_count
               => RedeemCommit("r1") /\ redeem'["r1"].outcome = Success
          /\ share_links'[l].download_limit # NULL =>
               share_links'[l].download_count <= Val(share_links'[l].download_limit)]_vars

\* a link with download_limit = 2 was redeemed twice with its password and the
\* third redemption failed with LimitReached
ThirdRedemptionRefused ==
  \E l \in DOMAIN share_links :
    /\ share_links[l].download_limit = Some(2)
    /\ share_links[l].download_count = 2
    /\ share_links[l].password = Some("pw")
    /\ redeem["r1"].pc = "idle"
    /\ redeem["r1"].link = Some(l)
    /\ redeem["r1"].password = Some("pw")
    /\ redeem["r1"].outcome = LimitReached

-----------------------------------------------------------------------------
(* Every statement that writes public.files, as one transaction each: the
   statement and the AFTER ... FOR EACH ROW trigger it fires commit together,
   and a call that raises commits nothing *)

AtomicFileIds == 1..AtomicFiles

NextAtomic ==
  \/ /\ nextFileId <= AtomicFiles
     /\ \E u \in Users : InsertFile(Some(u), Upload(1), u)
  \/ \E uid \in Callers, b \in Batches :
       /\ nextFileId + Len(b) - 1 <= AtomicFiles
       /\ bulk_insert_files(uid, b)
  \/ \E f \in AtomicFileIds : deleteFile(Some("A"), f)
  \/ \E f \in AtomicFileIds : restore_file(Some("A"), f)
  \/ \E f \in AtomicFileIds : DeleteOwnFile(Some("A"), f)
  \/ \E f \in AtomicFileIds : UpdateFileSize(Some("A"), f, 2)
  \/ \E f \in AtomicFileIds : TransferOwner(f, "B")
  \/ \E f \in AtomicFileIds : soft_delete_file(Some("A"), f)

SpecAtomic == Init /\ [][NextAtomic]_vars

-----------------------------------------------------------------------------
(* Bulk insert *)

RECURSIVE BatchSize(_)
BatchSize(b) == IF b = << >> THEN 0 ELSE Head(b).file_size + BatchSize(Tail(b))

\* C16: bulk_insert_files is all-or-nothing: either every record of the batch
\* is inserted, owned by the caller and not soft-deleted, and the caller's
\* storage_used rises by exactly the sum of their sizes, in one step; or the
\* call fails, no record is inserted and no ledger changes.
BulkInsertAllOrNothing ==
  [][\A uid \in Callers, b \in Batches :
       bulk_insert_files(uid, b) =>
         LET added == DOMAIN files' \ DOMAIN files IN
         \/ /\ result'.outcome = Success
            /\ uid # NULL
            /\ \A k \in 1..Len(b) : b[k].name # NULL
            /\ Cardinality(added) = Len(b)
            /\ {files'[f].file_path : f \in added} = {b[k].file_path : k \in 1..Len(b)}
            /\ \A f \in added : files'[f].owner_id = Val(uid) /\ ~files'[f].is_deleted
            /\ \A f \in DOMAIN files : files'[f] = files[f]
            /\ profiles' = [profiles EXCEPT ![Val(uid)].storage_used = @ + BatchSize(b)]
            /\ share_links' = share_links
         \/ /\ result'.outcome # Success
            /\ uid = NULL \/ \E k \in 1..Len(b) : b[k].name = NULL
            /\ UNCHANGED Registry]_vars

\* a batch of two records, of sizes 1 and 2, was inserted
BatchOfTwoInserted ==
  /\ result.op = "bulk_insert_files"
  /\ result.outcome = Success
  /\ Len(result.ret) = 2
  /\ \E u \in Users : profiles[u].storage_used = 3

-----------------------------------------------------------------------------
(* A file row and its ledger adjustment *)

\* the sum of file_size over the rows S of table tbl that owner u has and that
\* are not soft-deleted
RECURSIVE CountedSize(_, _, _)
CountedSize(tbl, S, u) ==
  IF S = {} THEN 0
  ELSE LET f == CHOOSE x \in S : TRUE
       IN  (IF tbl[f].owner_id = u /\ ~tbl[f].is_deleted THEN tbl[f].file_size ELSE 0)
           + CountedSize(tbl, S \ {f}, u)

-----------------------------------------------------------------------------
(* Soft delete followed by restore *)

\* C15: when the ledger equals the sum of the counted sizes, soft-deleting a
\* counted file and then restoring it leaves the owner's storage_used as it
\* was before the soft-delete.  Checked on every soft-delete step: the restore
\* is the update restore_file makes on the row the step left, with the
\* trigger it fires.
SoftDeleteThenRestore ==
  [][\A uid \in Callers, f \in DOMAIN files :
       (/\ deleteFile(uid, f)
        /\ result'.ret = Some(f)
        /\ ~files[f].is_deleted
        /\ LedgerEqualsSum)
       => LET restored == [files'[f] EXCEPT !.is_deleted = FALSE, !.deleted_at = NULL]
              after == update_storage_usage("UPDATE", files'[f], restored, profiles')
              owner == files[f].owner_id
          IN  after[owner].storage_used = profiles[owner].storage_used]_vars

-----------------------------------------------------------------------------
(* Permanent delete *)

\* C17: permanently_delete_file called by the owner of an existing file
\* succeeds: it removes the file record, returns the file id with the locator
\* the record held, and lowers the owner's storage_used by the file's size if
\* and only if the file was not soft-deleted.
PermanentDeleteEffect ==
  [][\A f \in DOMAIN files :
       permanently_delete_file(Some(files[f].owner_id), f) =>
         LET owner == files[f].owner_id IN
         /\ result'.outcome = Success
         /\ f \notin DOMAIN files'
         /\ \A g \in DOMAIN files \ {f} : g \in DOMAIN files' /\ files'[g] = files[g]
         /\ result'.ret = [file_id |-> f, file_path |-> files[f].file_path]
         /\ profiles'[owner].storage_used =
              IF files[f].is_deleted THEN profiles[owner].storage_used
              ELSE profiles[owner].storage_used - files[f].file_size
         /\ \A u \in Users \ {owner} : profiles'[u] = profiles[u]]_vars

-----------------------------------------------------------------------------
(* Who writes the ledger *)

\* C20: storage_used changes only with a change of a file row, by the Usage
\* Accountant: no step changes an account's storage_used while every file row
\* stays as it is.
LedgerWrittenOnlyByAccountant ==
  [][(\E u \in Users : profiles'[u].storage_used # profiles[u].storage_used)
       => files' # files]_vars

-----------------------------------------------------------------------------
(* File sizes *)

\* C26: every file record has a non-negative size: no insert or bulk insert
\* leaves a record with file_size < 0 in the table.
FileSizeNonNegative ==
  \A f \in DOMAIN files : files[f].file_size >= 0

-----------------------------------------------------------------------------
(* Concurrent transactions on public.files under READ COMMITTED.  Each session
   runs one statement per transaction: the statement writes its row (an UPDATE
   or DELETE locks the row it writes and waits while another transaction holds
   that lock, then takes the row as committed), the AFTER ... FOR EACH ROW
   trigger runs UPDATE public.profiles (which locks the profile row it writes
   and waits in the same way), and the commit publishes both writes. *)

TxnOps == {"INSERT", "SOFT_DELETE", "RESTORE", "DELETE"}

FileLockedByNobody(s, fid) == FALSE

\* session s has written file row fid in its open transaction
FileLockedBy(s, fid) ==
  /\ txn[s].pc \in {"wrote", "accounting", "accounted"}
  /\ txn[s].op # "INSERT"
  /\ txn[s].fid = fid

\* session s has written profile row u in its open transaction
ProfileLockedBy(s, u) ==
  /\ txn[s].pc \in {"accounting", "accounted"}
  /\ u \in DOMAIN txn[s].ledger

\* the profile rows an invocation of update_storage_usage runs an UPDATE on
LedgerRows(TG_OP, old, new) ==
  IF TG_OP = "INSERT" THEN
    IF ~new.is_deleted THEN {new.owner_id} ELSE {}
  ELSE IF TG_OP = "DELETE" THEN
    IF ~old.is_deleted THEN {old.owner_id} ELSE {}
  ELSE
    IF IsDistinctFrom(new.owner_id, old.owner_id) THEN
      (IF ~old.is_deleted THEN {old.owner_id} ELSE {})
        \cup (IF ~new.is_deleted THEN {new.owner_id} ELSE {})
    ELSE
      IF ~old.is_deleted /\ ~new.is_deleted THEN
        IF new.file_size # old.file_size THEN {new.owner_id} ELSE {}
      ELSE IF old.is_deleted /\ new.is_deleted THEN {}
      ELSE {new.owner_id}

\* the same rows in the order of the UPDATE statements: in the owner-changed
\* branch the old owner's row first, the new owner's row second
LedgerOrder(TG_OP, old, new) ==
  IF TG_OP = "UPDATE" /\ IsDistinctFrom(new.owner_id, old.owner_id)
  THEN (IF ~old.is_deleted THEN <<old.owner_id>> ELSE << >>)
         \o (IF ~new.is_deleted THEN <<new.owner_id>> ELSE << >>)
  ELSE IF LedgerRows(TG_OP, old, new) = {} THEN << >>
  ELSE <<CHOOSE u \in LedgerRows(TG_OP, old, new) : TRUE>>

TriggerOp(op) ==
  IF op = "INSERT" THEN "INSERT" ELSE IF op = "DELETE" THEN "DELETE" ELSE "UPDATE"

\* the row an UPDATE statement of the registry writes over row old
WrittenRow(op, old) ==
  IF op = "SOFT_DELETE"
  THEN [old EXCEPT !.is_deleted = TRUE, !.deleted_at = Some(now)]
  ELSE IF op = "RESTORE"
  THEN [old EXCEPT !.is_deleted = FALSE, !.deleted_at = NULL]
  ELSE old

\* the statement of session s reaches its row: 0 rows when the row is gone or
\* is not the caller's, else the row is written (and locked) in the transaction
TxnWrite(s, uid, op, fid, waited) ==
  IF fid \in DOMAIN files /\ uid = Some(files[fid].owner_id)
  THEN txn' = [txn EXCEPT ![s] =
                 [pc |-> "wrote", uid |-> uid, op |-> op, fid |-> fid,
                  waited |-> waited, old |-> files[fid],
                  new |-> WrittenRow(op, files[fid])]]
  ELSE txn' = [txn EXCEPT ![s] = NoTxn(op, fid, waited, "0 rows")]

\* a session starts a transaction with an INSERT of its own file
TxnInsert(s, uid, rec) ==
  /\ txn[s].pc = "idle"
  /\ uid # NULL
  /\ LET row == NewFileRow(rec, Val(uid))
     IN  txn' = [txn EXCEPT ![s] =
                   [pc |-> "wrote", uid |-> uid, op |-> "INSERT", fid |-> nextFileId,
                    waited |-> FALSE, old |-> row, new |-> row]]
  /\ nextFileId' = nextFileId + 1
  /\ UNCHANGED <<profiles, files, share_links, nextLinkId, now, redeem, result,
                 folders, nextFolderId>>

\* a session starts a transaction with an UPDATE or DELETE of file fid: it
\* waits if another transaction has written the row
TxnBegin(s, uid, op, fid) ==
  /\ txn[s].pc = "idle"
  /\ op # "INSERT"
  /\ IF \E o \in Sessions \ {s} : FileLockedBy(o, fid)
     THEN txn' = [txn EXCEPT ![s] =
                    [pc |-> "blocked", uid |-> uid, op |-> op, fid |-> fid]]
     ELSE TxnWrite(s, uid, op, fid, FALSE)
  /\ UNCHANGED <<profiles, files, share_links, nextFileId, nextLinkId, now, redeem,
                 result, folders, nextFolderId>>

\* the lock the session waited for is released: the statement goes on with the
\* row as it is committed now
TxnResume(s) ==
  /\ txn[s].pc = "blocked"
  /\ ~\E o \in Sessions \ {s} : FileLockedBy(o, txn[s].fid)
  /\ TxnWrite(s, txn[s].uid, txn[s].op, txn[s].fid, TRUE)
  /\ UNCHANGED <<profiles, files, share_links, nextFileId, nextLinkId, now, redeem,
                 result, folders, nextFolderId>>

\* a session starts a transaction with UPDATE files SET owner_id = p_owner WHERE
\* id = fid (service role); it starts once no other transaction has the row
TxnTransfer(s, fid, p_owner) ==
  /\ txn[s].pc = "idle"
  /\ fid \in DOMAIN files
  /\ ~\E o \in Sessions \ {s} : FileLockedBy(o, fid)
  /\ txn' = [txn EXCEPT ![s] =
               [pc |-> "wrote", uid |-> NULL, op |-> "TRANSFER", fid |-> fid,
                waited |-> FALSE, old |-> files[fid],
                new |-> [files[fid] EXCEPT !.owner_id = p_owner]]]
  /\ UNCHANGED <<profiles, files, share_links, nextFileId, nextLinkId, now, redeem,
                 result, folders, nextFolderId>>

\* the profile rows the trigger of session s has written so far
LedgerDone(s) ==
  IF txn[s].pc = "accounting" THEN txn[s].ledger ELSE [u \in {} |-> 0]

\* the profile rows the trigger of session s has still to write, in order
LedgerToDo(s) ==
  IF txn[s].pc \in {"wrote", "accounting"}
  THEN LET t == txn[s]
           order == LedgerOrder(TriggerOp(t.op), t.old, t.new)
       IN  SubSeq(order, Cardinality(DOMAIN LedgerDone(s)) + 1, Len(order))
  ELSE << >>

\* the next UPDATE of session s needs a profile row that session o has written
WaitsFor(s, o) ==
  /\ LedgerToDo(s) # << >>
  /\ ProfileLockedBy(o, Head(LedgerToDo(s)))

\* the trigger of the written row, one UPDATE of public.profiles at a time: the
\* UPDATE waits for the lock of the row it writes and then works on the
\* committed row, which stays locked until the transaction ends
TxnAccount(s) ==
  /\ txn[s].pc \in {"wrote", "accounting"}
  /\ LET t == txn[s]
         todo == LedgerToDo(s)
         after == update_storage_usage(TriggerOp(t.op), t.old, t.new, profiles)
     IN  IF todo = << >>
         THEN txn' = [txn EXCEPT ![s] =
                        [pc |-> "accounted", uid |-> t.uid, op |-> t.op, fid |-> t.fid,
                         waited |-> t.waited, old |-> t.old, new |-> t.new,
                         ledger |-> LedgerDone(s)]]
         ELSE LET u == Head(todo) IN
              /\ ~\E o \in Sessions \ {s} : ProfileLockedBy(o, u)
              /\ txn' = [txn EXCEPT ![s] =
                           [pc |-> IF Len(todo) = 1 THEN "accounted" ELSE "accounting",
                            uid |-> t.uid, op |-> t.op, fid |-> t.fid,
                            waited |-> t.waited, old |-> t.old, new |-> t.new,
                            ledger |-> [v \in DOMAIN LedgerDone(s) \cup {u} |->
                                          IF v = u THEN after[u] ELSE LedgerDone(s)[v]]]]
  /\ UNCHANGED <<profiles, files, share_links, nextFileId, nextLinkId, now, redeem,
                 result, folders, nextFolderId>>

\* two transactions wait for each other's profile row: the deadlock detector
\* of the database aborts one of them with 'deadlock detected'
TxnDeadlock(s) ==
  /\ \E o \in Sessions \ {s} : WaitsFor(s, o) /\ WaitsFor(o, s)
  /\ txn' = [txn EXCEPT ![s] =
               NoTxn(txn[s].op, txn[s].fid, txn[s].waited, "deadlock detected")]
  /\ UNCHANGED <<profiles, files, share_links, nextFileId, nextLinkId, now, redeem,
                 result, folders, nextFolderId>>

\* COMMIT: the file row and the profile rows of the transaction become the
\* committed ones and its locks are released
TxnCommit(s) ==
  /\ txn[s].pc = "accounted"
  /\ LET t == txn[s] IN
     /\ files' = IF t.op = "INSERT" THEN WithRow(files, t.fid, t.new)
                 ELSE IF t.op = "DELETE" THEN WithoutRows(files, {t.fid})
                 ELSE [files EXCEPT ![t.fid] = t.new]
     /\ share_links' = IF t.op = "DELETE" THEN WithoutRows(share_links, LinksOf(t.fid))
                       ELSE share_links
     /\ profiles' = [u \in DOMAIN profiles |->
                       IF u \in DOMAIN t.ledger THEN t.ledger[u] ELSE profiles[u]]
     /\ txn' = [txn EXCEPT ![s] = NoTxn(t.op, t.fid, t.waited, "committed")]
  /\ UNCHANGED <<nextFileId, nextLinkId, now, redeem, result, folders, nextFolderId>>

\* ROLLBACK (the session is lost before its commit): nothing is published
TxnRollback(s) ==
  /\ txn[s].pc \in {"wrote", "accounting", "accounted"}
  /\ txn' = [txn EXCEPT ![s] = NoTxn(txn[s].op, txn[s].fid, txn[s].waited, "rolled back")]
  /\ UNCHANGED <<profiles, files, share_links, nextFileId, nextLinkId, now, redeem,
                 result, folders, nextFolderId>>

TxnFileIds == 1..TxnFiles

\* two sessions of user A, every file of size 1
NextTxn ==
  \/ /\ nextFileId <= TxnFiles
     /\ \E s \in Sessions : TxnInsert(s, Some("A"), Upload(1))
  \/ \E s \in Sessions, op \in TxnOps, f \in TxnFileIds : TxnBegin(s, Some("A"), op, f)
  \/ \E s \in Sessions : TxnResume(s)
  \/ \E s \in Sessions : TxnAccount(s)
  \/ \E s \in Sessions : TxnCommit(s)
  \/ \E s \in Sessions : TxnRollback(s)

SpecTxn == Init /\ [][NextTxn]_vars

\* the same, with the sizes the files table accepts
TxnSizes == {-1, 1}

NextTxnSizes ==
  \/ /\ nextFileId <= TxnFiles
     /\ \E s \in Sessions, size \in TxnSizes : TxnInsert(s, Some("A"), Upload(size))
  \/ \E s \in Sessions, op \in TxnOps, f \in TxnFileIds : TxnBegin(s, Some("A"), op, f)
  \/ \E s \in Sessions : TxnResume(s)
  \/ \E s \in Sessions : TxnAccount(s)
  \/ \E s \in Sessions : TxnCommit(s)
  \/ \E s \in Sessions : TxnRollback(s)

SpecTxnSizes == Init /\ [][NextTxnSizes]_vars

\* C21: no ledger update is lost under concurrent transactions on different
\* files of one account: whenever no transaction is open, every account's
\* storage_used equals the sum of the sizes of its files that are not
\* soft-deleted.
NoLedgerUpdateLost ==
  (\A s \in Sessions : txn[s].pc = "idle")
    => \A u \in Users : profiles[u].storage_used = CountedSize(files, DOMAIN files, u)

Subtracting == {"SOFT_DELETE", "DELETE"}

\* C22: the Usage Accountant never acts on a stale old row: a transaction that
\* soft-deletes or deletes a file commits with the old row equal to the row
\* committed at that moment, so the owner's storage_used is lowered by the
\* file's size (floored at zero) exactly when the committed row was counted,
\* and is unchanged when another transaction has soft-deleted the file first.
SubtractedExactlyOnce ==
  [][\A s \in Sessions :
       (TxnCommit(s) /\ txn[s].op \in Subtracting) =>
         LET f == txn[s].fid
             owner == txn[s].old.owner_id
         IN  /\ f \in DOMAIN files
             /\ txn[s].old = files[f]
             /\ profiles'[owner].storage_used =
                  IF files[f].is_deleted THEN profiles[owner].storage_used
                  ELSE GREATEST(0, profiles[owner].storage_used - files[f].file_size)
             /\ \A u \in DOMAIN profiles \ {owner} : profiles'[u] = profiles[u]]_vars

\* two concurrent soft-deletes of one counted file: the second waited for the
\* first, then committed, and the size was subtracted once (the other file of
\* the account is still counted in the ledger)
SecondSoftDeleteWaited ==
  /\ \A s \in Sessions : txn[s] = NoTxn("SOFT_DELETE", 1, s = "s2", "committed")
  /\ DOMAIN files = {1, 2}
  /\ files[1].is_deleted /\ ~files[2].is_deleted
  /\ files[1].file_size = 1 /\ files[2].file_size = 1
  /\ profiles["A"].storage_used = 1

-----------------------------------------------------------------------------
(* Folders *)

\* CONSTRAINT unique_folder_name_per_parent UNIQUE (name, parent_id, owner_id):
\* two rows conflict when every column compares equal, and a comparison with
\* NULL is not TRUE, so rows without a parent never conflict
FolderNameTaken(id, name, parent_id, owner_id) ==
  \E g \in DOMAIN folders \ {id} :
    /\ folders[g].name = name
    /\ IsTrue(SqlEq(folders[g].parent_id, parent_id))
    /\ folders[g].owner_id = owner_id

\* the client's createFolder: INSERT INTO folders (name, parent_id, owner_id)
\* under policy "Users can create folders"
createFolder(uid, name, parent_id, owner_id) ==
  IF ~IsTrue(SqlEq(uid, Some(owner_id))) THEN Fail("createFolder", PolicyViolation)
  ELSE IF FolderNameTaken(0, name, parent_id, owner_id)
  THEN Fail("createFolder", UniqueViolation)
  ELSE IF parent_id # NULL /\ Val(parent_id) \notin DOMAIN folders
  THEN Fail("createFolder", ForeignKeyViolation)
  ELSE /\ folders' = WithRow(folders, nextFolderId,
                       [name |-> name, parent_id |-> parent_id, owner_id |-> owner_id])
       /\ nextFolderId' = nextFolderId + 1
       /\ result' = Return("createFolder", Success, Some(nextFolderId))
       /\ UNCHANGED <<profiles, files, share_links, nextFileId, nextLinkId, now, redeem, txn>>

\* the client's renameFolder: UPDATE folders SET name = ... WHERE id = ... under
\* policy "Users can update own folders"; another user's folder is not visible
renameFolder(uid, id, name) ==
  IF ~(id \in DOMAIN folders /\ uid = Some(folders[id].owner_id))
  THEN Fail("renameFolder", Success)
  ELSE IF FolderNameTaken(id, name, folders[id].parent_id, folders[id].owner_id)
  THEN Fail("renameFolder", UniqueViolation)
  ELSE /\ folders' = [folders EXCEPT ![id].name = name]
       /\ result' = Return("renameFolder", Success, Some(id))
       /\ UNCHANGED <<profiles, files, share_links, nextFileId, nextLinkId, now, redeem,
                      nextFolderId, txn>>

\* the folders a DELETE of the folders in S removes (parent_id ... ON DELETE CASCADE)
RECURSIVE FolderTree(_)
FolderTree(S) ==
  LET below == {g \in DOMAIN folders :
                  folders[g].parent_id # NULL /\ Val(folders[g].parent_id) \in S}
  IN  IF below \subseteq S THEN S ELSE FolderTree(S \cup below)

\* the files a DELETE of the folders in S removes (folder_id ... ON DELETE CASCADE)
FilesIn(S) ==
  {f \in DOMAIN files : files[f].folder_id # NULL /\ Val(files[f].folder_id) \in S}

\* the orders in which the rows of S can be deleted
Orders(S) ==
  {q \in [1..Cardinality(S) -> S] : \A i, j \in 1..Cardinality(S) : q[i] = q[j] => i = j}

\* the AFTER DELETE trigger fired for each deleted file row, in the order q
RECURSIVE DeleteUsage(_, _)
DeleteUsage(q, profs) ==
  IF q = << >> THEN profs
  ELSE DeleteUsage(Tail(q),
                   update_storage_usage("DELETE", files[Head(q)], files[Head(q)], profs))

\* the client's deleteFolder: DELETE FROM folders WHERE id = folderId under
\* policy "Users can delete own folders", with the cascades to folders, files
\* and share links; the order in which the cascade deletes the file rows is
\* the executor's
deleteFolder(uid, folderId) ==
  IF ~(folderId \in DOMAIN folders /\ uid = Some(folders[folderId].owner_id))
  THEN Fail("deleteFolder", Success)
  ELSE LET gone == FolderTree({folderId})
           rows == FilesIn(gone)
       IN  /\ folders' = WithoutRows(folders, gone)
           /\ files' = WithoutRows(files, rows)
           /\ share_links' = WithoutRows(share_links,
                               {l \in DOMAIN share_links : share_links[l].file_id \in rows})
           /\ \E q \in Orders(rows) : profiles' = DeleteUsage(q, profiles)
           /\ result' = Return("deleteFolder", Success, Some(folderId))
           /\ UNCHANGED <<nextFileId, nextLinkId, now, redeem, nextFolderId, txn>>

FolderIds == 1..MaxFolders
FolderFileIds == 1..FolderFiles
FolderNames == {"docs", "pics"}
Parents == {NULL} \cup {Some(g) : g \in FolderIds}

\* what the client sends for an upload into the folder that is open
UploadInto(size, folder_id) == [Upload(size) EXCEPT !.folder_id = folder_id]

NextFolders ==
  \/ /\ nextFolderId <= MaxFolders
     /\ \E uid \in Callers, name \in FolderNames, parent \in Parents :
          createFolder(uid, name, parent, "A")
  \/ \E uid \in Callers, g \in FolderIds, name \in FolderNames : renameFolder(uid, g, name)
  \/ \E uid \in Callers, g \in FolderIds : deleteFolder(uid, g)
  \/ /\ nextFileId <= FolderFiles
     /\ \E size \in Sizes, parent \in Parents : InsertFile(Some("A"), UploadInto(size, parent), "A")
  \/ \E f \in FolderFileIds : deleteFile(Some("A"), f)

SpecFolders == Init /\ [][NextFolders]_vars

\* C23: no two folders of one owner with the same parent, or both without a
\* parent, have the same name.
SiblingNamesUnique ==
  \A g, h \in DOMAIN folders :
    (/\ g # h
     /\ folders[g].owner_id = folders[h].owner_id
     /\ folders[g].parent_id = folders[h].parent_id)
    => folders[g].name # folders[h].name

\* C24: a deleteFolder of the owner removes the folder, every folder below it
\* and every file record in one of them, and leaves the other rows; when every
\* ledger equalled the sum of its counted sizes before, it does so afterwards.
DeleteFolderCascades ==
  [][\A g \in DOMAIN folders :
       deleteFolder(Some(folders[g].owner_id), g) =>
         LET gone == FolderTree({g}) IN
         /\ DOMAIN folders' = DOMAIN folders \ gone
         /\ \A h \in DOMAIN folders' : folders'[h] = folders[h]
         /\ DOMAIN files' = DOMAIN files \ FilesIn(gone)
         /\ \A f \in DOMAIN files' : files'[f] = files[f]
         /\ (\A u \in Users :
               profiles[u].storage_used = CountedSize(files, DOMAIN files, u))
            => \A u \in Users :
                 profiles'[u].storage_used = CountedSize(files', DOMAIN files', u)]_vars

-----------------------------------------------------------------------------
(* The soft-delete flag and the deletion timestamp *)

HasTimestampIffDeleted(row) == row.is_deleted <=> row.deleted_at # NULL

\* C25: after every step each file record has a deletion timestamp exactly
\* when its soft-delete flag is true; soft_delete_file called by the owner of
\* an existing file sets the flag and the timestamp, restore_file called by
\* the owner clears both, and rename_file changes neither.
DeletionTimestampWithFlag ==
  [][/\ \A f \in DOMAIN files' : HasTimestampIffDeleted(files'[f])
     /\ \A f \in DOMAIN files :
          LET owner == Some(files[f].owner_id) IN
          /\ soft_delete_file(owner, f) =>
               files'[f].is_deleted /\ files'[f].deleted_at # NULL
          /\ restore_file(owner, f) =>
               ~files'[f].is_deleted /\ files'[f].deleted_at = NULL
          /\ \A orig \in {NULL, Some("b.txt")} :
               rename_file(owner, f, "b.txt", orig) =>
                 /\ files'[f].is_deleted = files[f].is_deleted
                 /\ files'[f].deleted_at = files[f].deleted_at]_vars

-----------------------------------------------------------------------------
(* Paginated listing *)

\* WHERE owner_id = uid
\*   AND ((p_folder_id IS NULL AND folder_id IS NULL)
\*        OR (p_folder_id IS NOT NULL AND folder_id = p_folder_id))
\*   AND (p_include_deleted OR NOT COALESCE(is_deleted, FALSE))
ListWhere(row, uid, p_folder_id, p_include_deleted) ==
  SqlAnd(SqlAnd(SqlEq(Some(row.owner_id), uid),
                SqlOr(SqlAnd(IsNull(p_folder_id), IsNull(row.folder_id)),
                      SqlAnd(IsNotNull(p_folder_id), SqlEq(row.folder_id, p_folder_id)))),
         SqlOr(p_include_deleted, Some(~row.is_deleted)))

\* ORDER BY created_at DESC: rows created at the same time come in any order
NewestFirst(q) ==
  \A i, j \in 1..Len(q) : i < j => files[q[i]].created_at >= files[q[j]].created_at

PageIgnoringOffset(q, p_limit, p_offset) ==
  SubSeq(q, 1, IF p_limit = NULL \/ Val(p_limit) > Len(q) THEN Len(q) ELSE Val(p_limit))

\* LIMIT p_limit OFFSET p_offset (LIMIT NULL is no limit)
Page(q, p_limit, p_offset) ==
  LET last == IF p_limit = NULL \/ p_offset + Val(p_limit) > Len(q)
              THEN Len(q) ELSE p_offset + Val(p_limit)
  IN  SubSeq(q, p_offset + 1, last)

\* list_files returns the rows; the model returns their ids, the rows being
\* those of the table, which the call leaves as it is, and keeps the arguments
\* of the call with what it returned
list_files(uid, p_folder_id, p_limit, p_offset, p_include_deleted) ==
  IF VariableConflict({"owner_id", "folder_id", "is_deleted", "created_at"}, list_files_vars)
  THEN Fail("list_files", AmbiguousColumn)
  ELSE LET matches == {f \in DOMAIN files :
                         IsTrue(ListWhere(files[f], uid, p_folder_id, p_include_deleted))}
       IN  /\ \E q \in Orders(matches) :
                /\ NewestFirst(q)
                /\ result' = [op |-> "list_files", outcome |-> Success,
                               ret |-> Page(q, p_limit, p_offset),
                               args |-> [uid |-> uid, p_folder_id |-> p_folder_id,
                                         p_limit |-> p_limit, p_offset |-> p_offset,
                                         p_include_deleted |-> p_include_deleted]]
           /\ UNCHANGED <<profiles, files, share_links, nextFileId, nextLinkId, now, redeem,
                          folders, nextFolderId, txn>>

ListFileIds == 1..ListFiles
ListCallers == {Some("A"), NULL}
ListFolders == {NULL, Some(1)}
ListLimits == {NULL, Some(1)}
ListOffsets == {0, 1}
Booleans == {NULL, Some(FALSE), Some(TRUE)}

\* A uploads into the top level or into the folder, B into the top level, A
\* moves files to the trash, and A or an anonymous caller lists.  A listing
\* only reads the tables, so one listing per state of the tables shows every
\* result
NextList ==
  \/ /\ nextFolderId <= 1
     /\ createFolder(Some("A"), "docs", NULL, "A")
  \/ /\ nextFileId <= ListFiles
     /\ \E folder \in ListFolders : InsertFile(Some("A"), UploadInto(1, folder), "A")
  \/ /\ nextFileId <= ListFiles
     /\ InsertFile(Some("B"), Upload(1), "B")
  \/ \E f \in ListFileIds : deleteFile(Some("A"), f)
  \/ /\ result.op # "list_files"
     /\ \E uid \in ListCallers, folder \in ListFolders, lim \in ListLimits,
           off \in ListOffsets, incl \in Booleans :
          list_files(uid, folder, lim, off, incl)
  \/ Tick

SpecList == Init /\ [][NextList]_vars

\* C27: list_files returns only files the caller owns, of the folder given (of
\* no folder when none is given), soft-deleted ones only when includeDeleted is
\* true, each once and newest first; it returns the matching files from
\* position offset + 1 on, at most limit of them, and changes nothing.
ListFilesContract ==
  [][(result'.op = "list_files" /\ result' # result) =>
       LET ret == result'.ret
           uid == result'.args.uid
           folder == result'.args.p_folder_id
           lim == result'.args.p_limit
           off == result'.args.p_offset
           incl == result'.args.p_include_deleted
           matching == {f \in DOMAIN files :
                          /\ Some(files[f].owner_id) = uid
                          /\ files[f].folder_id = folder
                          /\ files[f].is_deleted => incl = Some(TRUE)}
           n == Cardinality(matching)
           rest == IF n > off THEN n - off ELSE 0
           newer(f) == {g \in matching : files[g].created_at > files[f].created_at}
           notOlder(f) == {g \in matching : files[g].created_at >= files[f].created_at}
       IN  /\ result'.outcome = Success
           /\ {ret[i] : i \in 1..Len(ret)} \subseteq matching
           /\ \A i, j \in 1..Len(ret) : i < j =>
                /\ ret[i] # ret[j]
                /\ files[ret[i]].created_at >= files[ret[j]].created_at
           /\ Len(ret) = IF lim # NULL /\ Val(lim) < rest THEN Val(lim) ELSE rest
           /\ \A i \in 1..Len(ret) :
                /\ Cardinality(newer(ret[i])) <= off + i - 1
                /\ Cardinality(notOlder(ret[i])) >= off + i
           /\ UNCHANGED <<profiles, files, share_links, folders>>]_vars

\* A has a newer and an older file in the top level; a listing with offset 1
\* skipped the newer one and returned the older one
SecondPageListed ==
  /\ result.op = "list_files"
  /\ result.args.p_offset = 1
  /\ Len(result.ret) = 1
  /\ \E f \in DOMAIN files :
       /\ f # result.ret[1]
       /\ files[f].owner_id = "A" /\ files[result.ret[1]].owner_id = "A"
       /\ ~files[f].is_deleted /\ ~files[result.ret[1]].is_deleted
       /\ files[f].folder_id = NULL /\ files[result.ret[1]].folder_id = NULL
       /\ files[f].created_at > files[result.ret[1]].created_at

-----------------------------------------------------------------------------
(* The accounts a ledger adjustment touches *)

\* the owners, before and after the step, of the file rows the step writes
OwnersWritten ==
  {files[f].owner_id : f \in {g \in DOMAIN files : g \notin DOMAIN files' \/ files'[g] # files[g]}}
    \cup {files'[f].owner_id : f \in {g \in DOMAIN files' : g \notin DOMAIN files \/ files'[g] # files[g]}}

\* C28: a mutation of a file changes storage_used of at most the file's old
\* owner and its new owner: every other account's row, and every account's
\* storage_limit, is as before.
OnlyOwnersLedgersChange ==
  [][/\ \A u \in DOMAIN profiles \ OwnersWritten : profiles'[u] = profiles[u]
     /\ DOMAIN profiles' = DOMAIN profiles
     /\ \A u \in DOMAIN profiles : profiles'[u].storage_limit = profiles[u].storage_limit]_vars

\* one of A's two files was handed to B: the ledgers of A and B moved, the
\* third account's did not
TransferLeftBystanderAlone ==
  /\ result.op = "transfer_owner"
  /\ \E f, g \in DOMAIN files :
       /\ files[f].owner_id = "B" /\ files[g].owner_id = "A"
       /\ ~files[f].is_deleted /\ ~files[g].is_deleted
       /\ profiles["B"].storage_used = files[f].file_size
       /\ profiles["A"].storage_used = files[g].file_size
  /\ profiles[Bystander].storage_used = 0

-----------------------------------------------------------------------------
(* Updates of a file row that change its owner, its size and its soft-delete
   flag, one or several at once *)

UpdateFileIds == 1..UpdateFiles

NextUpdate ==
  \/ /\ nextFileId <= UpdateFiles
     /\ \E u \in Users, size \in Sizes : InsertFile(Some(u), Upload(size), u)
  \/ \E f \in UpdateFileIds, owner \in Users, size \in Sizes, del \in BOOLEAN :
       UpdateFile(f, owner, size, del)

SpecUpdate == Init /\ [][NextUpdate]_vars

\* C29: an update that changes a file's owner, when both ledgers equalled the
\* sums of their counted sizes before, lowers the old owner's storage_used by
\* the old size exactly when the old row was counted, raises the new owner's by
\* the new size exactly when the new row is counted, whatever the update does
\* to the size and the flag, and leaves both ledgers equal to their sums.
OwnerChangeAccounted ==
  [][\A f \in DOMAIN files \cap DOMAIN files' :
       (/\ files'[f].owner_id # files[f].owner_id
        /\ \A u \in Users : profiles[u].storage_used = CountedSize(files, DOMAIN files, u))
       => LET old == files[f]
              new == files'[f]
          IN  /\ profiles'[old.owner_id].storage_used =
                   profiles[old.owner_id].storage_used
                     - (IF old.is_deleted THEN 0 ELSE old.file_size)
              /\ profiles'[new.owner_id].storage_used =
                   profiles[new.owner_id].storage_used
                     + (IF new.is_deleted THEN 0 ELSE new.file_size)
              /\ \A u \in Users :
                   profiles'[u].storage_used = CountedSize(files', DOMAIN files', u)]_vars

\* C30: an update that keeps a file's owner changes the owner's storage_used
\* by new size - old size when the row is counted before and after (not at all
\* when the size is the same), leaves it unchanged when the row is soft-deleted
\* before and after, whatever the sizes, and adds the new size when it
\* restores the row.
SameOwnerUpdateAccounted ==
  [][\A f \in DOMAIN files \cap DOMAIN files' :
       (files'[f] # files[f] /\ files'[f].owner_id = files[f].owner_id)
       => LET old == files[f]
              new == files'[f]
              used == profiles[new.owner_id].storage_used
          IN  /\ (~old.is_deleted /\ ~new.is_deleted) =>
                   profiles'[new.owner_id].storage_used = used + new.file_size - old.file_size
              /\ (old.is_deleted /\ new.is_deleted) =>
                   profiles'[new.owner_id].storage_used = used
              /\ (old.is_deleted /\ ~new.is_deleted) =>
                   profiles'[new.owner_id].storage_used = used + new.file_size
              /\ \A u \in DOMAIN profiles \ {new.owner_id} : profiles'[u] = profiles[u]]_vars

\* a soft-deleted file of size 1 was restored and resized to 2 in one update
\* and the owner's ledger, which was 0, is 2
RestoredWithNewSize ==
  /\ result.op = "update_file"
  /\ DOMAIN files = {1}
  /\ files[1].owner_id = "A" /\ ~files[1].is_deleted /\ files[1].file_size = 2
  /\ profiles["A"].storage_used = 2
  /\ profiles["B"].storage_used = 0

-----------------------------------------------------------------------------
(* What a redemption changes *)

GuardFailures == {InvalidToken, Expired, InvalidPassword, LimitReached}

\* C31: a redemption that fails with InvalidToken, Expired, InvalidPassword or
\* LimitReached changes no state: every share link (download_count and every
\* other attribute), every file record and every ledger is after the call as
\* before it, and the call returns nothing.
FailedRedemptionChangesNothing ==
  [][\A r \in Redeemers :
       (/\ redeem'[r] # redeem[r]
        /\ redeem'[r].pc = "idle"
        /\ redeem'[r].outcome \in GuardFailures)
       => /\ share_links' = share_links
          /\ files' = files
          /\ profiles' = profiles
          /\ redeem'[r].ret = NoReturn]_vars

\* a link with a password was redeemed once; the next redemption presented a
\* wrong password, failed with InvalidPassword and the count is still 1
WrongPasswordLeftCount ==
  \E l \in DOMAIN share_links :
    /\ share_links[l].password = Some("pw")
    /\ share_links[l].download_count = 1
    /\ redeem["r1"].pc = "idle"
    /\ redeem["r1"].link = Some(l)
    /\ redeem["r1"].password = Some("bad")
    /\ redeem["r1"].outcome = InvalidPassword

-----------------------------------------------------------------------------
(* Redemption of the links of several files, while their owner trashes,
   restores and deletes the files and deletes links *)

RedeemFileIds == 1..RedeemFiles
RedeemLinkIds == 1..RedeemLinks
\* an upload of size 1 under the given name
NamedUpload(n) == [Upload(1) EXCEPT !.name = n, !.original_name = n]

NextRedeem ==
  \/ /\ nextFileId <= RedeemFiles
     /\ InsertFile(Some("A"), NamedUpload(IF nextFileId = 1 THEN "a.txt" ELSE "b.txt"), "A")
  \/ /\ nextLinkId <= RedeemLinks
     /\ \E f \in RedeemFileIds :
          InsertShareLink(Some("A"), f, IF nextLinkId = 1 THEN "t1" ELSE "t2", "A")
  \/ \E f \in RedeemFileIds : deleteFile(Some("A"), f)
  \/ \E f \in RedeemFileIds : restore_file(Some("A"), f)
  \/ \E f \in RedeemFileIds : DeleteOwnFile(Some("A"), f)
  \/ \E f \in RedeemFileIds : permanently_delete_file(Some("A"), f)
  \/ \E l \in RedeemLinkIds : DeleteShareLink(Some("A"), l)
  \/ \E tok \in Tokens : RedeemLookup("r1", tok, NULL)
  \/ /\ \A l \in DOMAIN share_links : share_links[l].download_count < MaxCount
     /\ RedeemCommit("r1")

SpecRedeem == Init /\ [][NextRedeem]_vars

\* C32: a successful redemption raises download_count of the redeemed link by
\* exactly 1 and changes nothing else of any link, file or ledger; the file the
\* link is bound to is not soft-deleted, and the call returns the locator,
\* display name, original name and content type of that file.
SuccessfulRedemptionEffect ==
  [][\A r \in Redeemers :
       (/\ redeem'[r] # redeem[r]
        /\ redeem'[r].pc = "idle"
        /\ redeem'[r].outcome = Success)
       => LET l == Val(redeem'[r].link)
              fid == redeem[r].ret.file_id
          IN  /\ share_links' =
                   IF l \in DOMAIN share_links
                   THEN [share_links EXCEPT ![l].download_count = @ + 1]
                   ELSE share_links
              /\ l \in DOMAIN share_links => share_links[l].file_id = fid
              /\ fid \in DOMAIN files
              /\ ~files[fid].is_deleted
              /\ redeem'[r].ret.file_path = files[fid].file_path
              /\ redeem'[r].ret.file_name = files[fid].name
              /\ redeem'[r].ret.original_name = files[fid].original_name
              /\ redeem'[r].ret.file_type = files[fid].file_type
              /\ \A g \in DOMAIN files \ {fid} :
                   redeem'[r].ret.file_path # files[g].file_path
              /\ files' = files
              /\ profiles' = profiles]_vars

\* of two links, bound to two files, the second was redeemed once and the call
\* returned the second file; the first link is unused
SecondLinkRedeemed ==
  /\ DOMAIN share_links = {1, 2}
  /\ share_links[1].file_id = 1 /\ share_links[2].file_id = 2
  /\ share_links[1].download_count = 0
  /\ share_links[2].download_count = 1
  /\ redeem["r1"].pc = "idle"
  /\ redeem["r1"].outcome = Success
  /\ redeem["r1"].link = Some(2)
  /\ redeem["r1"].ret.file_path = files[2].file_path
  /\ redeem["r1"].ret.file_name = "b.txt"
  /\ files[1].name = "a.txt"

-----------------------------------------------------------------------------
(* What a rename changes *)

\* C33: rename_file called by the owner of a file, soft-deleted or not,
\* succeeds and changes only the file's display name and, when a new original
\* name is given, its original name; the owner, size, locator, folder,
\* soft-delete flag and timestamp of the file, every other file, every share
\* link and every account's storage_used are unchanged.
RenameFileEffect ==
  [][\A f \in DOMAIN files, orig \in {NULL, Some("b.txt")} :
       rename_file(Some(files[f].owner_id), f, "b.txt", orig)
       => /\ result'.outcome = Success
          /\ files' = [files EXCEPT
                         ![f].name = "b.txt",
                         ![f].original_name = IF orig = NULL THEN @ ELSE Val(orig)]
          /\ share_links' = share_links
          /\ profiles' = profiles]_vars

-----------------------------------------------------------------------------
(* Concurrent transfers of files between two accounts *)

TransferFileIds == 1..TransferFiles

NextTransfer ==
  \/ /\ nextFileId <= TransferFiles
     /\ \E s \in Sessions, u \in Users : TxnInsert(s, Some(u), Upload(1))
  \/ \E s \in Sessions, f \in TransferFileIds, owner \in Users : TxnTransfer(s, f, owner)
  \/ \E s \in Sessions : TxnAccount(s)
  \/ \E s \in Sessions : TxnCommit(s)
  \/ \E s \in Sessions : TxnDeadlock(s)

SpecTransfer == Init /\ [][NextTransfer]_vars

\* C34: two concurrent transfers of different files in opposite directions
\* between the same two accounts never reach a state in which each
\* transaction holds one account's ledger row and waits for the other's.
NoLedgerDeadlock ==
  ~\E s \in Sessions, o \in Sessions :
     /\ s # o
     /\ txn[s].op = "TRANSFER" /\ txn[o].op = "TRANSFER"
     /\ txn[s].fid # txn[o].fid
     /\ WaitsFor(s, o)
     /\ WaitsFor(o, s)

-----------------------------------------------------------------------------
(* Repeated soft-deletes and restores *)

\* C35: soft_delete_file of a file that is already soft-deleted and
\* restore_file of a file that is not soft-deleted, called by the owner, both
\* succeed and leave every account's storage_used unchanged.
SoftDeleteAndRestoreIdempotent ==
  [][\A f \in DOMAIN files :
       LET owner == Some(files[f].owner_id) IN
       /\ (files[f].is_deleted /\ soft_delete_file(owner, f))
            => result'.outcome = Success /\ profiles' = profiles
       /\ (~files[f].is_deleted /\ restore_file(owner, f))
            => result'.outcome = Success /\ profiles' = profiles]_vars

-----------------------------------------------------------------------------
(* Uploads that take an account past its storage_limit; sizes and the limit
   are in the same unit *)

QuotaFileIds == 1..QuotaFiles
QuotaSizes == {2, 4}

NextQuota ==
  \/ /\ nextFileId <= QuotaFiles
     /\ \E size \in QuotaSizes : InsertFile(Some("A"), Upload(size), "A")
  \/ \E b \in Batches :
       /\ nextFileId + Len(b) - 1 <= QuotaFiles
       /\ bulk_insert_files(Some("A"), b)
  \/ \E f \in QuotaFileIds : deleteFile(Some("A"), f)
  \/ \E f \in QuotaFileIds : restore_file(Some("A"), f)
  \/ \E f \in QuotaFileIds : DeleteOwnFile(Some("A"), f)

SpecQuota == Init /\ [][NextQuota]_vars

\* C36: no operation changes storage_limit, and an insert or a bulk insert of
\* files succeeds and adds their sizes to the owner's storage_used whatever
\* storage_limit is, also when storage_used passes it.
QuotaNeverEnforced ==
  [][/\ \A u \in DOMAIN profiles :
          profiles'[u].storage_limit = profiles[u].storage_limit
     /\ \A size \in QuotaSizes :
          InsertFile(Some("A"), Upload(size), "A")
          => /\ result'.outcome = Success
             /\ profiles'["A"].storage_used = profiles["A"].storage_used + size
     /\ \A b \in Batches :
          (/\ bulk_insert_files(Some("A"), b)
           /\ \A k \in 1..Len(b) : b[k].name # NULL)
          => /\ result'.outcome = Success
             /\ profiles'["A"].storage_used = profiles["A"].storage_used + BatchSize(b)]_vars

\* a bulk insert succeeded and the account holds more than its storage_limit
BulkInsertPastLimit ==
  /\ result.op = "bulk_insert_files"
  /\ result.outcome = Success
  /\ profiles["A"].storage_used > profiles["A"].storage_limit
  /\ \A f \in DOMAIN files : ~files[f].is_deleted

-----------------------------------------------------------------------------
(* Links of a file that is deleted for good *)

\* C37: the delete of a file removes every share link bound to it and no other
\* link, so that no link of any state references a file that does not exist
\* and no link is left with a token that was bound to the file; a redemption
\* begun with a token that no link has fails with InvalidToken, never with
\* FileUnavailable.
DeleteRemovesLinks ==
  [][/\ \A f \in DOMAIN files \ DOMAIN files' :
          /\ share_links' = WithoutRows(share_links, LinksOf(f))
          /\ \A l \in LinksOf(f), k \in DOMAIN share_links' :
               share_links'[k].token # share_links[l].token
     /\ \A l \in DOMAIN share_links' : share_links'[l].file_id \in DOMAIN files'
     /\ \A tok \in Tokens :
          (/\ RedeemLookup("r1", tok, NULL)
           /\ \A l \in DOMAIN share_links : share_links[l].token # tok)
          => /\ redeem'["r1"].pc = "idle"
             /\ redeem'["r1"].outcome = InvalidToken]_vars

\* the first file, to which the first link was bound, is deleted and the link
\* with it; the second file and its link are left, and the redemption with the
\* token of the first link failed with InvalidToken
TokenOfDeletedFileRefused ==
  /\ result.op = "delete_own_file" /\ result.ret = Some(1)
  /\ DOMAIN files = {2}
  /\ DOMAIN share_links = {2}
  /\ nextLinkId = 3
  /\ share_links[2].file_id = 2
  /\ share_links[2].token = "t2"
  /\ redeem["r1"].pc = "idle"
  /\ redeem["r1"].outcome = InvalidToken

-----------------------------------------------------------------------------
(* Share links of a file in the trash *)

NextTrash ==
  \/ /\ nextFileId <= RedeemFiles
     /\ InsertFile(Some("A"), Upload(1), "A")
  \/ /\ nextLinkId <= RedeemLinks
     /\ \E f \in RedeemFileIds : InsertShareLink(Some("A"), f, "t1", "A")
  \/ /\ nextLinkId <= RedeemLinks
     /\ \E f \in RedeemFileIds, tok \in Tokens :
          create_share_link(Some("A"), f, NULL, NULL, NULL, tok)
  \/ \E f \in RedeemFileIds : soft_delete_file(Some("A"), f)
  \/ \E f \in RedeemFileIds : deleteFile(Some("A"), f)
  \/ \E f \in RedeemFileIds : restore_file(Some("A"), f)
  \/ \E tok \in Tokens : RedeemLookup("r1", tok, NULL)
  \/ /\ \A l \in DOMAIN share_links : share_links[l].download_count < MaxCount
     /\ RedeemCommit("r1")

SpecTrash == Init /\ [][NextTrash]_vars

\* a step that soft-deletes or restores a file leaves every share link as it was
TrashLeavesLinks ==
  \A f \in DOMAIN files \cap DOMAIN files' :
    files'[f].is_deleted # files[f].is_deleted => share_links' = share_links

\* a redemption that passed the guards fails with FileUnavailable when the
\* file is soft-deleted and succeeds when it is not
RedeemableIffNotInTrash ==
  \A r \in Redeemers :
    (redeem[r].pc = "checked" /\ redeem'[r].pc = "idle"
       /\ redeem[r].ret.file_id \in DOMAIN files)
    => redeem'[r].outcome =
         IF files[redeem[r].ret.file_id].is_deleted THEN FileUnavailable ELSE Success

\* C38: soft-deleting and restoring a file never change its share links; a
\* redemption of a link fails with FileUnavailable while the file is
\* soft-deleted and succeeds before the soft-delete and after the restore; and
\* create_share_link called by the owner with a fresh token succeeds, and adds
\* a link, while the file is soft-deleted.
TrashKeepsLinksUsable ==
  [][/\ TrashLeavesLinks
     /\ RedeemableIffNotInTrash
     /\ \A f \in DOMAIN files, tok \in Tokens :
          (/\ files[f].is_deleted
           /\ ~TokenTaken(tok)
           /\ create_share_link(Some(files[f].owner_id), f, NULL, NULL, NULL, tok))
          => /\ result'.outcome = Success
             /\ DOMAIN share_links' = DOMAIN share_links \cup {nextLinkId}]_vars

====
